---- MODULE Spec2Model ----
(***************************************************************************)
(* Model of the design-document repositories of cline-support:             *)
(* FileSystemFeatureRepository / FileSystemTermRepository, the Feature and *)
(* Term entities and the FeatureName / TermName value objects.             *)
(*                                                                         *)
(* JavaScript values are tagged records (t = "undefined", "null",          *)
(* "string", "number", "array", "object"); a string is a sequence of       *)
(* one-character strings, so that trim() and the name patterns are         *)
(* computed and not assumed.                                               *)
(***************************************************************************)
EXTENDS Integers, Sequences, FiniteSets, TLC

(***************************************************************************)
(* Bounds of the model.                                                    *)
(***************************************************************************)
\* longest collection an append may still extend
MaxLen == 2
\* number of call slots (calls that can be in flight at the same time)
NumSlots == 2
\* longest request list of findByNames
MaxReq == 3
\* longest coreLogicSteps array of a payload handed to Feature.create
MaxSteps == 2
\* longest string handed to FeatureName.create / TermName.create
MaxNameLen == 3
\* longest name list handed to a use case
MaxNames == 2
\* most HTTP exchanges of one client
MaxExchanges == 5
\* most POST requests of one client in the status check
MaxPosts == 2

(***************************************************************************)
(* Program constants.                                                      *)
(***************************************************************************)
MIN_STRING_LENGTH == 1
MIN_STEP_NUMBER == 1

(***************************************************************************)
(* JavaScript values.                                                      *)
(***************************************************************************)
Undefined == [t |-> "undefined"]
Null == [t |-> "null"]
Str(s) == [t |-> "string", v |-> s]
Num(n) == [t |-> "number", v |-> n]
NaN == [t |-> "nan"]
Arr(items) == [t |-> "array", v |-> items]
Obj(fields) == [t |-> "object", v |-> fields]

IsString(x) == x.t = "string"
IsArray(x) == x.t = "array"
IsObject(x) == x.t = "object"
\* x is null or undefined: a property access on it throws a TypeError
IsNullish(x) == x.t \in {"undefined", "null"}
\* o.k for an object o (a missing property reads as undefined)
Get(o, k) == IF IsObject(o) /\ k \in DOMAIN o.v THEN o.v[k] ELSE Undefined

(***************************************************************************)
(* Strings: String.prototype.trim and the two name patterns.               *)
(***************************************************************************)
Letters == {"a", "b", "c", "d", "e", "g", "p", "q", "t", "u"}
Digits == {"1"}
Whitespace == {" "}

RECURSIVE TrimStart(_)
TrimStart(s) ==
  IF s # <<>> /\ Head(s) \in Whitespace THEN TrimStart(Tail(s)) ELSE s

RECURSIVE TrimEnd(_)
TrimEnd(s) ==
  IF s # <<>> /\ s[Len(s)] \in Whitespace
    THEN TrimEnd(SubSeq(s, 1, Len(s) - 1))
    ELSE s

Trim(s) == TrimEnd(TrimStart(s))

\* !x?.trim() for x a string, undefined or null
IsBlank(x) == IF IsString(x) THEN Trim(x.v) = <<>> ELSE TRUE
\* x?.trim() throws when x is neither nullish nor a string
TrimThrows(x) == ~IsNullish(x) /\ ~IsString(x)

\* /^[a-zA-Z][a-zA-Z0-9_]*$/.test(s)
FeatureNamePattern(s) ==
  /\ s # <<>>
  /\ s[1] \in Letters
  /\ \A i \in 2..Len(s) : s[i] \in Letters \cup Digits \cup {"_"}

\* /^[<kana, CJK>a-zA-Z0-9_\-\s]+$/.test(s)
TermNamePattern(s) ==
  /\ s # <<>>
  /\ \A i \in 1..Len(s) : s[i] \in Letters \cup Digits \cup {"_", "-"} \cup Whitespace

(***************************************************************************)
(* FeatureName / TermName value objects.  An error list is a sequence of   *)
(* error tags.                                                             *)
(***************************************************************************)
FeatureNameValidate(value) ==
  IF ~IsString(value) THEN <<"nameNotString">>
  ELSE (IF Trim(value.v) = <<>> THEN <<"nameEmpty">> ELSE <<>>)
       \o (IF Len(Trim(value.v)) < MIN_STRING_LENGTH THEN <<"nameTooShort">> ELSE <<>>)
       \o (IF ~FeatureNamePattern(Trim(value.v)) THEN <<"namePattern">> ELSE <<>>)

\* Result<FeatureName>: on success the name holds the TRIMMED value
FeatureNameCreate(value) ==
  IF FeatureNameValidate(value) # <<>>
    THEN [success |-> FALSE, error |-> FeatureNameValidate(value)]
    ELSE [value |-> Trim(value.v), success |-> TRUE]

TermNameValidate(value) ==
  IF ~IsString(value) THEN <<"nameNotString">>
  ELSE (IF Trim(value.v) = <<>> THEN <<"nameEmpty">> ELSE <<>>)
       \o (IF Len(Trim(value.v)) < MIN_STRING_LENGTH THEN <<"nameTooShort">> ELSE <<>>)
       \o (IF ~TermNamePattern(Trim(value.v)) THEN <<"namePattern">> ELSE <<>>)

TermNameCreate(value) ==
  IF TermNameValidate(value) # <<>>
    THEN [success |-> FALSE, error |-> TermNameValidate(value)]
    ELSE [value |-> Trim(value.v), success |-> TRUE]

(***************************************************************************)
(* Feature entity.  An error entry is [e |-> tag, i |-> index]; i is the   *)
(* element's index for the per-element errors and -1 otherwise.            *)
(***************************************************************************)
Err(tag) == [i |-> -1, e |-> tag]
ErrAt(tag, index) == [i |-> index, e |-> tag]

\* errors of one element of inputs (index is the zero-based array index)
InputErrors(input, index) ==
  (IF IsBlank(Get(input, "name")) THEN <<ErrAt("inputName", index)>> ELSE <<>>)
  \o (IF IsBlank(Get(input, "dataTypeDescription"))
        THEN <<ErrAt("inputDataType", index)>> ELSE <<>>)
  \o (IF IsBlank(Get(input, "purpose")) THEN <<ErrAt("inputPurpose", index)>> ELSE <<>>)
  \o (IF ~IsArray(Get(input, "constraints"))
        THEN <<ErrAt("inputConstraints", index)>> ELSE <<>>)

InputThrows(input) ==
  \/ IsNullish(input)
  \/ TrimThrows(Get(input, "name"))
  \/ TrimThrows(Get(input, "dataTypeDescription"))
  \/ TrimThrows(Get(input, "purpose"))

\* inputs.entries() needs an array; a nullish element or a non-string field throws
ValidateInputsThrows(inputs) ==
  \/ ~IsArray(inputs)
  \/ \E k \in 1..Len(inputs.v) : InputThrows(inputs.v[k])

ValidateInputs(inputs) ==
  LET F[k \in 0..Len(inputs.v)] ==
        IF k = 0 THEN <<>> ELSE F[k - 1] \o InputErrors(inputs.v[k], k - 1)
  IN F[Len(inputs.v)]

OutputErrors(output, index) ==
  (IF IsBlank(Get(output, "condition")) THEN <<ErrAt("outputCondition", index)>> ELSE <<>>)
  \o (IF IsBlank(Get(output, "dataDescription"))
        THEN <<ErrAt("outputDataDescription", index)>> ELSE <<>>)
  \o (IF Get(output, "structureHint").t \notin {"object", "array"}
        THEN <<ErrAt("outputStructureHint", index)>> ELSE <<>>)

OutputThrows(output) ==
  \/ IsNullish(output)
  \/ TrimThrows(Get(output, "condition"))
  \/ TrimThrows(Get(output, "dataDescription"))

ValidateOutputsThrows(outputs) ==
  \/ ~IsArray(outputs)
  \/ \E k \in 1..Len(outputs.v) : OutputThrows(outputs.v[k])

ValidateOutputs(outputs) ==
  LET F[k \in 0..Len(outputs.v)] ==
        IF k = 0 THEN <<>> ELSE F[k - 1] \o OutputErrors(outputs.v[k], k - 1)
  IN F[Len(outputs.v)]

\* typeof n !== 'number' || n < MIN_STEP_NUMBER  (NaN < 1 is false)
BadStepNumber(n) ==
  \/ n.t \notin {"number", "nan"}
  \/ n.t = "number" /\ n.v < MIN_STEP_NUMBER

StepErrors(step, index) ==
  (IF BadStepNumber(Get(step, "stepNumber")) THEN <<ErrAt("stepNumber", index)>> ELSE <<>>)
  \o (IF IsBlank(Get(step, "description")) THEN <<ErrAt("stepDescription", index)>> ELSE <<>>)
  \o (IF IsBlank(Get(step, "output")) THEN <<ErrAt("stepOutput", index)>> ELSE <<>>)
  \o (IF ~IsArray(Get(step, "inputs")) THEN <<ErrAt("stepInputs", index)>> ELSE <<>>)

StepThrows(step) ==
  \/ IsNullish(step)
  \/ TrimThrows(Get(step, "description"))
  \/ TrimThrows(Get(step, "output"))

ValidateCoreLogicStepsThrows(steps) ==
  \/ ~IsArray(steps)
  \/ \E k \in 1..Len(steps.v) : StepThrows(steps.v[k])

\* mutant of ValidateCoreLogicSteps: no check of repeated step numbers
ValidateCoreLogicStepsNoDuplicateCheck(steps) ==
  LET F[k \in 0..Len(steps.v)] ==
        IF k = 0 THEN <<>> ELSE F[k - 1] \o StepErrors(steps.v[k], k - 1)
  IN F[Len(steps.v)]

\* stepNumbers.length !== new Set(stepNumbers).size
ValidateCoreLogicSteps(steps) ==
  LET F[k \in 0..Len(steps.v)] ==
        IF k = 0 THEN <<>> ELSE F[k - 1] \o StepErrors(steps.v[k], k - 1)
      stepNumbers == [k \in 1..Len(steps.v) |-> Get(steps.v[k], "stepNumber")]
      uniqueStepNumbers == {stepNumbers[k] : k \in 1..Len(stepNumbers)}
  IN F[Len(steps.v)]
     \o (IF Len(stepNumbers) # Cardinality(uniqueStepNumbers)
           THEN <<Err("stepNumberDuplicate")>> ELSE <<>>)

NotArrayError(x, tag) == IF ~IsArray(x) THEN <<Err(tag)>> ELSE <<>>

\* validateFeatureData throws a TypeError (instead of returning its errors)
ValidateFeatureDataThrows(data) ==
  \/ TrimThrows(Get(Get(data, "feature"), "purpose"))
  \/ ValidateInputsThrows(Get(data, "inputs"))
  \/ ValidateOutputsThrows(Get(data, "outputs"))
  \/ ValidateCoreLogicStepsThrows(Get(data, "coreLogicSteps"))

ValidateFeatureData(data) ==
  (IF IsBlank(Get(Get(data, "feature"), "purpose")) THEN <<Err("purposeRequired")>> ELSE <<>>)
  \o NotArrayError(Get(Get(data, "feature"), "userStories"), "userStoriesNotArray")
  \o NotArrayError(Get(data, "inputs"), "inputsNotArray")
  \o NotArrayError(Get(data, "outputs"), "outputsNotArray")
  \o NotArrayError(Get(data, "coreLogicSteps"), "coreLogicStepsNotArray")
  \o NotArrayError(Get(data, "errorHandling"), "errorHandlingNotArray")
  \o NotArrayError(Get(data, "nonFunctionalRequirements"), "nonFunctionalRequirementsNotArray")
  \o NotArrayError(Get(data, "documentationNotes"), "documentationNotesNotArray")
  \o ValidateInputs(Get(data, "inputs"))
  \o ValidateOutputs(Get(data, "outputs"))
  \o ValidateCoreLogicSteps(Get(data, "coreLogicSteps"))

\* Outcome of Feature.create(data): kind "ok" (entity: trimmed name + raw
\* data), "fail" (a failure Result) or "throw" (a TypeError escapes create).
FeatureCreate(data) ==
  IF IsNullish(data) \/ IsNullish(Get(data, "feature"))
    THEN [kind |-> "throw"]
  ELSE IF ~FeatureNameCreate(Get(Get(data, "feature"), "name")).success
    THEN [error |-> FeatureNameCreate(Get(Get(data, "feature"), "name")).error, kind |-> "fail"]
  ELSE IF ValidateFeatureDataThrows(data)
    THEN [kind |-> "throw"]
  ELSE IF ValidateFeatureData(data) # <<>>
    THEN [error |-> ValidateFeatureData(data), kind |-> "fail"]
  ELSE [data |-> data,
        kind |-> "ok",
        name |-> FeatureNameCreate(Get(Get(data, "feature"), "name")).value]

(***************************************************************************)
(* Term entity.                                                            *)
(***************************************************************************)
ExampleErrors(example, index) ==
  (IF IsBlank(Get(example, "scenario")) THEN <<ErrAt("exampleScenario", index)>> ELSE <<>>)
  \o (IF IsBlank(Get(example, "description"))
        THEN <<ErrAt("exampleDescription", index)>> ELSE <<>>)

ValidateExamples(examples) ==
  LET F[k \in 0..Len(examples.v)] ==
        IF k = 0 THEN <<>> ELSE F[k - 1] \o ExampleErrors(examples.v[k], k - 1)
  IN F[Len(examples.v)]

RelatedTermErrors(relatedTerm, index) ==
  (IF IsBlank(Get(relatedTerm, "termName")) THEN <<ErrAt("relatedTermName", index)>> ELSE <<>>)
  \o (IF IsBlank(Get(relatedTerm, "relationshipType"))
        THEN <<ErrAt("relatedTermType", index)>> ELSE <<>>)

ValidateRelatedTerms(relatedTerms) ==
  LET F[k \in 0..Len(relatedTerms.v)] ==
        IF k = 0 THEN <<>> ELSE F[k - 1] \o RelatedTermErrors(relatedTerms.v[k], k - 1)
  IN F[Len(relatedTerms.v)]

ElementsThrow(arr, fields) ==
  /\ IsArray(arr)
  /\ \E k \in 1..Len(arr.v) :
       \/ IsNullish(arr.v[k])
       \/ \E f \in fields : TrimThrows(Get(arr.v[k], f))

ValidateTermDataThrows(data) ==
  LET term == Get(data, "term")
      context == Get(term, "context")
      details == Get(data, "details")
      relationships == Get(data, "relationships")
      implementation == Get(data, "implementation")
  IN \/ TrimThrows(Get(term, "definition"))
     \/ ~IsNullish(context) /\ (\/ TrimThrows(Get(context, "boundedContext"))
                                \/ TrimThrows(Get(context, "scope")))
     \/ ~IsNullish(details) /\ (\/ TrimThrows(Get(details, "category"))
                                \/ ElementsThrow(Get(details, "examples"),
                                                 {"scenario", "description"}))
     \/ ~IsNullish(relationships)
          /\ ElementsThrow(Get(relationships, "relatedTerms"),
                           {"termName", "relationshipType"})
     \/ ~IsNullish(implementation) /\ TrimThrows(Get(implementation, "codeMapping"))

ValidateTermData(data) ==
  LET term == Get(data, "term")
      context == Get(term, "context")
      details == Get(data, "details")
      relationships == Get(data, "relationships")
      implementation == Get(data, "implementation")
  IN (IF IsBlank(Get(term, "definition")) THEN <<Err("definitionRequired")>> ELSE <<>>)
     \o NotArrayError(Get(term, "aliases"), "aliasesNotArray")
     \o (IF IsNullish(context) THEN <<Err("contextRequired")>>
         ELSE (IF IsBlank(Get(context, "boundedContext"))
                 THEN <<Err("boundedContextRequired")>> ELSE <<>>)
              \o (IF IsBlank(Get(context, "scope")) THEN <<Err("scopeRequired")>> ELSE <<>>))
     \o (IF IsNullish(details) THEN <<Err("detailsRequired")>>
         ELSE (IF IsBlank(Get(details, "category")) THEN <<Err("categoryRequired")>> ELSE <<>>)
              \o (IF ~IsArray(Get(details, "examples")) THEN <<Err("examplesNotArray")>>
                  ELSE ValidateExamples(Get(details, "examples")))
              \o NotArrayError(Get(details, "ambiguitiesAndBoundaries"),
                               "ambiguitiesNotArray"))
     \o (IF IsNullish(relationships) THEN <<Err("relationshipsRequired")>>
         ELSE (IF ~IsArray(Get(relationships, "relatedTerms"))
                 THEN <<Err("relatedTermsNotArray")>>
                 ELSE ValidateRelatedTerms(Get(relationships, "relatedTerms")))
              \o NotArrayError(Get(relationships, "associatedFunctions"),
                               "associatedFunctionsNotArray"))
     \o (IF IsNullish(implementation) THEN <<Err("implementationRequired")>>
         ELSE (IF IsBlank(Get(implementation, "codeMapping"))
                 THEN <<Err("codeMappingRequired")>> ELSE <<>>)
              \o (IF Get(implementation, "dataStructureHint").t \notin {"object", "array"}
                    THEN <<Err("dataStructureHintNotObject")>> ELSE <<>>)
              \o NotArrayError(Get(implementation, "constraints"), "constraintsNotArray"))

\* Outcome of Term.create(data), as for FeatureCreate
TermCreate(data) ==
  IF IsNullish(data) \/ IsNullish(Get(data, "term"))
    THEN [kind |-> "throw"]
  ELSE IF ~TermNameCreate(Get(Get(data, "term"), "name")).success
    THEN [error |-> TermNameCreate(Get(Get(data, "term"), "name")).error, kind |-> "fail"]
  ELSE IF ValidateTermDataThrows(data)
    THEN [kind |-> "throw"]
  ELSE IF ValidateTermData(data) # <<>>
    THEN [error |-> ValidateTermData(data), kind |-> "fail"]
  ELSE [data |-> data,
        kind |-> "ok",
        name |-> TermNameCreate(Get(Get(data, "term"), "name")).value]

(***************************************************************************)
(* Result / Option.                                                        *)
(***************************************************************************)
Success(value) == [value |-> value, success |-> TRUE]
Failure(error) == [success |-> FALSE, error |-> error]
None == [isSome |-> FALSE]
Some(value) == [value |-> value, isSome |-> TRUE]

(***************************************************************************)
(* The design document file.  kind is "missing" (ENOENT), "garbage" (not   *)
(* JSON) or "json"; features and terms are the parsed values of the two    *)
(* top-level keys (Undefined when the key is missing).  The message of the *)
(* SyntaxError JSON.parse throws is the runtime's: V8 since Node 20 quotes *)
(* the text around the offending token (Unexpected token 'E', "ENOENT" is  *)
(* not valid JSON), Node 18 does not (Unexpected token E in JSON at        *)
(* position 0).  kind "garbage-enoent" is a file that is not JSON and      *)
(* whose parse error message includes the text ENOENT.                     *)
(***************************************************************************)
MissingFile == [kind |-> "missing", features |-> Undefined, terms |-> Undefined]
GarbageFile == [kind |-> "garbage", features |-> Undefined, terms |-> Undefined]
EnoentGarbageFile ==
  [kind |-> "garbage-enoent", features |-> Undefined, terms |-> Undefined]
JsonFile(features, terms) == [kind |-> "json", features |-> features, terms |-> terms]

\* JSON.parse(JSON.stringify(x)): NaN becomes null, an undefined array element
\* becomes null, an undefined property is dropped
RECURSIVE Json(_)
Json(x) ==
  CASE x.t = "nan" -> Null
    [] x.t = "array" ->
         LET F[k \in 0..Len(x.v)] ==
               IF k = 0 THEN <<>>
               ELSE Append(F[k - 1],
                           IF x.v[k].t = "undefined" THEN Null ELSE Json(x.v[k]))
         IN Arr(F[Len(x.v)])
    [] x.t = "object" ->
         IF \A j \in DOMAIN x.v : x.v[j].t # "undefined"
           THEN Obj([k \in DOMAIN x.v |-> Json(x.v[k])])
           ELSE Obj([k \in {j \in DOMAIN x.v : x.v[j].t # "undefined"} |-> Json(x.v[k])])
    [] OTHER -> x

\* mutant of LoadDesignDocument: a missing file is a load failure
LoadDesignDocumentStrict(f) ==
  IF f.kind # "json" THEN Failure("DESIGN_LOAD_FAILED")
  ELSE Success([features |-> IF IsArray(f.features) THEN f.features ELSE Arr(<<>>),
                terms |-> IF IsArray(f.terms) THEN f.terms ELSE Arr(<<>>)])

\* loadDesignDocument: an error whose message includes ENOENT (the file is
\* missing) gives the empty document, a key that is not an array is coerced to
\* [], any other error is a failure
LoadDesignDocument(f) ==
  IF f.kind \in {"missing", "garbage-enoent"}
    THEN Success([features |-> Arr(<<>>), terms |-> Arr(<<>>)])
  ELSE IF f.kind = "garbage" THEN Failure("DESIGN_LOAD_FAILED")
  ELSE Success([features |-> IF IsArray(f.features) THEN f.features ELSE Arr(<<>>),
                terms |-> IF IsArray(f.terms) THEN f.terms ELSE Arr(<<>>)])

\* the file content saveDesignDocument writes for a document
WrittenFile(document) == JsonFile(Json(document.features), Json(document.terms))

(***************************************************************************)
(* The two repositories are the same code over the two collections; kind   *)
(* is "feature" (FileSystemFeatureRepository) or "term"                    *)
(* (FileSystemTermRepository).                                             *)
(***************************************************************************)
Kinds == {"feature", "term"}
Coll(kind) == IF kind = "feature" THEN "features" ELSE "terms"
Other(kind) == IF kind = "feature" THEN "terms" ELSE "features"
Create(kind, data) == IF kind = "feature" THEN FeatureCreate(data) ELSE TermCreate(data)
NameCreate(kind, value) ==
  IF kind = "feature" THEN FeatureNameCreate(value) ELSE TermNameCreate(value)

\* f.feature.name of a stored record (t.term.name for a term)
StoredName(kind, item) == Get(Get(item, kind), "name")
\* f.feature.name throws: the record or its feature/term section is nullish
NameAccessThrows(kind, item) == IsNullish(item) \/ IsNullish(Get(item, kind))
\* f.feature.name === name.value
Matches(kind, item, name) == StoredName(kind, item) = Str(name)

\* features.findIndex(f => f.feature.name === name.value), one-based; 0 for -1
FindIndex(kind, items, name) ==
  IF \E k \in 1..Len(items) : Matches(kind, items[k], name)
    THEN CHOOSE k \in 1..Len(items) :
           /\ Matches(kind, items[k], name)
           /\ \A j \in 1..(k - 1) : ~Matches(kind, items[j], name)
    ELSE 0

\* the callback throws on a record visited before the search ends
FindThrows(kind, items, name) ==
  \E k \in 1..Len(items) :
    /\ NameAccessThrows(kind, items[k])
    /\ \A j \in 1..(k - 1) : ~Matches(kind, items[j], name)

Entity(created) == [data |-> created.data, name |-> created.name]

\* findByName(name); a throw is caught and returned as a failure
FindByName(f, kind, name) ==
  LET documentResult == LoadDesignDocument(f)
      items == documentResult.value[Coll(kind)].v
      index == FindIndex(kind, items, name)
      created == Create(kind, items[index])
  IN IF ~documentResult.success THEN Failure(documentResult.error)
     ELSE IF FindThrows(kind, items, name) THEN Failure("TypeError")
     ELSE IF index = 0 THEN Success(None)
     ELSE IF created.kind = "throw" THEN Failure("TypeError")
     ELSE IF created.kind = "fail" THEN Failure(created.error)
     ELSE Success(Some(Entity(created)))

\* findAll(): every stored record goes through create; one bad record fails all
FindAll(f, kind) ==
  LET documentResult == LoadDesignDocument(f)
      items == documentResult.value[Coll(kind)].v
      created == [k \in 1..Len(items) |-> Create(kind, items[k])]
  IN IF ~documentResult.success THEN Failure(documentResult.error)
     ELSE IF \E k \in 1..Len(items) : created[k].kind = "throw" THEN Failure("TypeError")
     ELSE IF \E k \in 1..Len(items) : created[k].kind = "fail" THEN Failure("loadErrors")
     ELSE Success(LET F[k \in 0..Len(items)] ==
                        IF k = 0 THEN <<>> ELSE Append(F[k - 1], Entity(created[k]))
                  IN F[Len(items)])

\* one element of getList(): name and purpose of a feature; name, definition
\* and details.category of a term
ListItem(kind, item) ==
  IF kind = "feature"
    THEN [name |-> Get(Get(item, "feature"), "name"),
          purpose |-> Get(Get(item, "feature"), "purpose")]
    ELSE [name |-> Get(Get(item, "term"), "name"),
          definition |-> Get(Get(item, "term"), "definition"),
          category |-> Get(Get(item, "details"), "category")]

ListItemThrows(kind, item) ==
  \/ NameAccessThrows(kind, item)
  \/ kind = "term" /\ IsNullish(Get(item, "details"))

\* mutant of GetList: no try / catch, the TypeError of the projection escapes
GetListUncaught(f, kind) ==
  LET documentResult == LoadDesignDocument(f)
      items == documentResult.value[Coll(kind)].v
  IN IF ~documentResult.success THEN Failure(documentResult.error)
     ELSE IF \E k \in 1..Len(items) : ListItemThrows(kind, items[k])
       THEN [kind |-> "throw"]
     ELSE Success(LET F[k \in 0..Len(items)] ==
                        IF k = 0 THEN <<>> ELSE Append(F[k - 1], ListItem(kind, items[k]))
                  IN F[Len(items)])

\* getList(): no validation, but the projection throws on a missing section
GetList(f, kind) ==
  LET documentResult == LoadDesignDocument(f)
      items == documentResult.value[Coll(kind)].v
  IN IF ~documentResult.success THEN Failure(documentResult.error)
     ELSE IF \E k \in 1..Len(items) : ListItemThrows(kind, items[k])
       THEN Failure("TypeError")
     ELSE Success(LET F[k \in 0..Len(items)] ==
                        IF k = 0 THEN <<>> ELSE Append(F[k - 1], ListItem(kind, items[k]))
                  IN F[Len(items)])

\* mutant of Exists: the stored record is looked up by name only, its
\* validation is skipped
ExistsByIndex(f, kind, name) ==
  LET documentResult == LoadDesignDocument(f)
      items == documentResult.value[Coll(kind)].v
  IN IF ~documentResult.success THEN Failure(documentResult.error)
     ELSE IF FindThrows(kind, items, name) THEN Failure("TypeError")
     ELSE Success(FindIndex(kind, items, name) > 0)

\* exists(name): findByName(name).isSome
Exists(f, kind, name) ==
  LET findResult == FindByName(f, kind, name)
  IN IF ~findResult.success THEN Failure(findResult.error)
     ELSE Success(findResult.value.isSome)

\* count(): the collection's length, no validation
Count(f, kind) ==
  LET documentResult == LoadDesignDocument(f)
  IN IF ~documentResult.success THEN Failure(documentResult.error)
     ELSE Success(Len(documentResult.value[Coll(kind)].v))

\* mutant of FindByNamesLoop: an absent name is put in front of notFound
RECURSIVE FindByNamesLoopPrepends(_, _, _, _, _)
FindByNamesLoopPrepends(kind, items, names, found, notFound) ==
  IF names = <<>> THEN Success([found |-> found, notFound |-> notFound])
  ELSE LET name == Head(names)
           index == FindIndex(kind, items, name)
           created == Create(kind, items[index])
       IN IF FindThrows(kind, items, name) THEN Failure("TypeError")
          ELSE IF index = 0
            THEN FindByNamesLoopPrepends(kind, items, Tail(names), found,
                                         <<name>> \o notFound)
          ELSE IF created.kind = "throw" THEN Failure("TypeError")
          ELSE IF created.kind = "fail" THEN Failure(created.error)
          ELSE FindByNamesLoopPrepends(kind, items, Tail(names),
                                       Append(found, Entity(created)), notFound)

\* mutant of FindByNamesLoop: a match that fails create is reported as not found
RECURSIVE FindByNamesLoopSkipsInvalid(_, _, _, _, _)
FindByNamesLoopSkipsInvalid(kind, items, names, found, notFound) ==
  IF names = <<>> THEN Success([found |-> found, notFound |-> notFound])
  ELSE LET name == Head(names)
           index == FindIndex(kind, items, name)
           created == Create(kind, items[index])
       IN IF FindThrows(kind, items, name) THEN Failure("TypeError")
          ELSE IF index = 0 \/ created.kind # "ok"
            THEN FindByNamesLoopSkipsInvalid(kind, items, Tail(names), found,
                                             Append(notFound, name))
          ELSE FindByNamesLoopSkipsInvalid(kind, items, Tail(names),
                                           Append(found, Entity(created)), notFound)

\* the loop of findByNames over the names left: the first bad match fails the call
RECURSIVE FindByNamesLoop(_, _, _, _, _)
FindByNamesLoop(kind, items, names, found, notFound) ==
  IF names = <<>> THEN Success([found |-> found, notFound |-> notFound])
  ELSE LET name == Head(names)
           index == FindIndex(kind, items, name)
           created == Create(kind, items[index])
       IN IF FindThrows(kind, items, name) THEN Failure("TypeError")
          ELSE IF index = 0
            THEN FindByNamesLoop(kind, items, Tail(names), found, Append(notFound, name))
          ELSE IF created.kind = "throw" THEN Failure("TypeError")
          ELSE IF created.kind = "fail" THEN Failure(created.error)
          ELSE FindByNamesLoop(kind, items, Tail(names),
                               Append(found, Entity(created)), notFound)

FindByNames(f, kind, names) ==
  LET documentResult == LoadDesignDocument(f)
  IN IF ~documentResult.success THEN Failure(documentResult.error)
     ELSE FindByNamesLoop(kind, documentResult.value[Coll(kind)].v, names, <<>>, <<>>)

\* items.filter((_, i) => i !== existingIndex)
RemoveAt(items, index) ==
  SubSeq(items, 1, index - 1) \o SubSeq(items, index + 1, Len(items))

\* mutant of ReplaceAt: the old entry is removed and the new one pushed at the end
ReplaceAtMoved(items, index, data) == Append(RemoveAt(items, index), data)

\* items with the element at index replaced (newFeatures[existingIndex] = data)
ReplaceAt(items, index, data) == [items EXCEPT ![index] = data]

\* the updatedDocument of save: replace at the found index, else append
SaveDocument(document, kind, entity) ==
  LET items == document[Coll(kind)].v
      existingIndex == FindIndex(kind, items, entity.name)
  IN IF existingIndex > 0
       THEN [document EXCEPT ![Coll(kind)] = Arr(ReplaceAt(items, existingIndex, entity.data))]
       ELSE [document EXCEPT ![Coll(kind)] = Arr(Append(items, entity.data))]

\* mutant of DeleteDocument: the filter drops every entry of that name
DeleteDocumentByName(document, kind, name) ==
  LET items == document[Coll(kind)].v
      F[k \in 0..Len(items)] ==
        IF k = 0 THEN <<>>
        ELSE IF Matches(kind, items[k], name) THEN F[k - 1]
        ELSE Append(F[k - 1], items[k])
  IN [document EXCEPT ![Coll(kind)] = Arr(F[Len(items)])]

\* mutant of DeleteDocument: the filter keeps every entry
DeleteDocumentKeepsAll(document, kind, name) == document

\* the updatedDocument of delete (for existingIndex > 0)
DeleteDocument(document, kind, name) ==
  LET items == document[Coll(kind)].v
      existingIndex == FindIndex(kind, items, name)
  IN [document EXCEPT ![Coll(kind)] = Arr(RemoveAt(items, existingIndex))]

(***************************************************************************)
(* Payloads.  A string literal below is spelled as its characters.         *)
(***************************************************************************)
FeatureData(name, purpose) ==
  Obj([inputs |-> Arr(<<>>),
       outputs |-> Arr(<<>>),
       feature |-> Obj([name |-> Str(name), purpose |-> Str(purpose),
                        userStories |-> Arr(<<>>)]),
       coreLogicSteps |-> Arr(<<Obj([inputs |-> Arr(<<>>), output |-> Str(<<"e">>),
                                     stepNumber |-> Num(1), description |-> Str(<<"d">>)])>>),
       errorHandling |-> Arr(<<>>),
       nonFunctionalRequirements |-> Arr(<<>>),
       documentationNotes |-> Arr(<<>>)])

TermData(name, definition) ==
  Obj([term |-> Obj([name |-> Str(name), context |-> Obj([boundedContext |-> Str(<<"b">>),
                                      scope |-> Str(<<"c">>)]),
                     definition |-> Str(definition),
                     aliases |-> Arr(<<>>)]),
       details |-> Obj([examples |-> Arr(<<>>), category |-> Str(<<"g">>),
                        ambiguitiesAndBoundaries |-> Arr(<<>>)]),
       relationships |-> Obj([relatedTerms |-> Arr(<<>>),
                              associatedFunctions |-> Arr(<<>>)]),
       implementation |-> Obj([codeMapping |-> Str(<<"c">>),
                               dataStructureHint |-> Obj([type |-> Str(<<"o">>)]),
                               constraints |-> Arr(<<>>)])])

\* payloads handed to Feature.create / Term.create before a save
FeaturePayloads ==
  {FeatureData(<<"a">>, <<"p">>), FeatureData(<<"a">>, <<"q">>),
   FeatureData(<<" ", "a">>, <<"p">>),
   FeatureData(<<"1">>, <<"p">>), FeatureData(<<"b">>, <<" ">>)}

TermPayloads ==
  {TermData(<<"t">>, <<"d">>), TermData(<<"t", " ">>, <<"d">>), TermData(<<"!">>, <<"d">>)}

Payloads(kind) == IF kind = "feature" THEN FeaturePayloads ELSE TermPayloads

\* raw strings handed to FeatureName.create / TermName.create
RawNames(kind) ==
  IF kind = "feature"
    THEN {<<"a">>, <<" ", "a">>, <<"b">>, <<"c">>, <<"1">>}
    ELSE {<<"t">>, <<"t", " ">>, <<"u">>, <<"g">>, <<>>}

\* the names create accepts (trimmed)
ValidNames(kind) ==
  {NameCreate(kind, Str(raw)).value :
     raw \in {r \in RawNames(kind) : NameCreate(kind, Str(r)).success}}

\* request lists of findByNames
NameLists(kind) ==
  UNION {[1..n -> ValidNames(kind)] : n \in 0..MaxReq}

\* stored records that fail entity validation (hand-edited file)
BlankPurposeFeature == FeatureData(<<"c">>, <<" ">>)
\* invalid records that share their name with a valid one
BlankPurposeDuplicate == FeatureData(<<"a">>, <<" ">>)
BlankDefinitionDuplicate == TermData(<<"t">>, <<" ">>)
NoSectionFeature == Obj([inputs |-> Arr(<<>>)])
\* { term: { name: 'u', definition: '', aliases: [] } }: no details section
NoDetailsTerm ==
  Obj([term |-> Obj([name |-> Str(<<"u">>), definition |-> Str(<<>>),
                     aliases |-> Arr(<<>>)])])

\* documents the file can hold before the first call
InitFiles ==
  {MissingFile,
   GarbageFile,
   JsonFile(Arr(<<>>), Arr(<<>>)),
   JsonFile(Undefined, Arr(<<TermData(<<"t">>, <<"d">>)>>)),
   JsonFile(Arr(<<FeatureData(<<"a">>, <<"p">>)>>), Arr(<<TermData(<<"t">>, <<"d">>)>>)),
   JsonFile(Arr(<<FeatureData(<<"a">>, <<"p">>), BlankPurposeFeature>>),
            Arr(<<TermData(<<"t">>, <<"d">>), NoDetailsTerm>>)),
   JsonFile(Arr(<<FeatureData(<<"b">>, <<"p">>), NoSectionFeature>>), Arr(<<>>))}

(***************************************************************************)
(* State.                                                                  *)
(*   file      the design document file                                    *)
(*   writable  fs.writeFile succeeds (FALSE: EACCES, read-only directory)  *)
(*   slots     the repository calls.  pc is "idle", "loaded" (the document *)
(*             is read and the updated document is waiting for its write)  *)
(*             or "done" (the call has returned res); before is the file   *)
(*             the call read; prev is the result of the call that returned *)
(*             in this slot immediately before, when that call was the     *)
(*             same save or delete (same repository, same argument); calls *)
(*             is the sequence of repository calls a use case has made     *)
(*             (for a REST exchange see the REST handlers below)           *)
(***************************************************************************)
VARIABLES file, writable, slots

vars == <<file, writable, slots>>

Slots == 1..NumSlots

IdleSlot ==
  [kind |-> "none", pc |-> "idle", op |-> "none", arg |-> Undefined,
   before |-> Undefined, pending |-> Undefined, res |-> Undefined, prev |-> Undefined,
   calls |-> <<>>]

Mutating == {"save", "delete"}

\* the result of the same mutating call made immediately before in slot c
Repeated(c, op, kind, arg) ==
  IF /\ op \in Mutating
     /\ slots[c].pc = "done"
     /\ slots[c].op = op
     /\ slots[c].kind = kind
     /\ slots[c].arg = arg
    THEN slots[c].res
    ELSE Undefined

Init ==
  /\ file \in InitFiles
  /\ writable \in BOOLEAN
  /\ slots = [c \in Slots |-> IdleSlot]

\* a call that returns res without a write step
Returned(c, op, kind, arg, res) ==
  slots' = [slots EXCEPT ![c] =
              [kind |-> kind, pc |-> "done", op |-> op, arg |-> arg,
               before |-> file, pending |-> Undefined, res |-> res,
               prev |-> Repeated(c, op, kind, arg), calls |-> <<>>]]

\* a call that has read the file and computed the document it will write
Loaded(c, op, kind, arg, pending, res) ==
  slots' = [slots EXCEPT ![c] =
              [kind |-> kind, pc |-> "loaded", op |-> op, arg |-> arg,
               before |-> file, pending |-> pending, res |-> res,
               prev |-> Repeated(c, op, kind, arg), calls |-> <<>>]]

\* save(entity) up to the await of saveDesignDocument
SaveLoad(c, kind, data) ==
  LET created == Create(kind, data)
      entity == Entity(created)
      documentResult == LoadDesignDocument(file)
      items == documentResult.value[Coll(kind)].v
      isUpdate == FindIndex(kind, items, entity.name) > 0
  IN /\ slots[c].pc # "loaded"
     /\ created.kind = "ok"
     /\ UNCHANGED <<file, writable>>
     /\ IF ~documentResult.success
          THEN Returned(c, "save", kind, entity, Failure(documentResult.error))
        ELSE IF FindThrows(kind, items, entity.name)
          THEN Returned(c, "save", kind, entity, Failure("TypeError"))
        ELSE /\ isUpdate \/ Len(items) < MaxLen
             /\ Loaded(c, "save", kind, entity,
                       SaveDocument(documentResult.value, kind, entity),
                       Success([isUpdate |-> isUpdate]))

\* mutant of DeleteLoad: no early return, the unchanged document is saved when
\* the name is not found
DeleteLoadAlwaysSaves(c, kind, raw) ==
  LET nameResult == NameCreate(kind, Str(raw))
      name == nameResult.value
      documentResult == LoadDesignDocument(file)
      items == documentResult.value[Coll(kind)].v
  IN /\ slots[c].pc # "loaded"
     /\ nameResult.success
     /\ UNCHANGED <<file, writable>>
     /\ IF ~documentResult.success
          THEN Returned(c, "delete", kind, [name |-> name], Failure(documentResult.error))
        ELSE IF FindThrows(kind, items, name)
          THEN Returned(c, "delete", kind, [name |-> name], Failure("TypeError"))
        ELSE IF FindIndex(kind, items, name) = 0
          THEN Loaded(c, "delete", kind, [name |-> name], documentResult.value,
                      Success([found |-> FALSE]))
        ELSE Loaded(c, "delete", kind, [name |-> name],
                    DeleteDocument(documentResult.value, kind, name),
                    Success([found |-> TRUE]))

\* delete(name) up to the await of saveDesignDocument, or to its return when
\* the name is not found
DeleteLoad(c, kind, raw) ==
  LET nameResult == NameCreate(kind, Str(raw))
      name == nameResult.value
      documentResult == LoadDesignDocument(file)
      items == documentResult.value[Coll(kind)].v
  IN /\ slots[c].pc # "loaded"
     /\ nameResult.success
     /\ UNCHANGED <<file, writable>>
     /\ IF ~documentResult.success
          THEN Returned(c, "delete", kind, [name |-> name], Failure(documentResult.error))
        ELSE IF FindThrows(kind, items, name)
          THEN Returned(c, "delete", kind, [name |-> name], Failure("TypeError"))
        ELSE IF FindIndex(kind, items, name) = 0
          THEN Returned(c, "delete", kind, [name |-> name], Success([found |-> FALSE]))
        ELSE Loaded(c, "delete", kind, [name |-> name],
                    DeleteDocument(documentResult.value, kind, name),
                    Success([found |-> TRUE]))

\* mutant of Write: the mutation of a save is applied to the document as it is
\* at the time of the write, not to the document the call read
WriteOnCurrent(c) ==
  /\ slots[c].pc = "loaded"
  /\ UNCHANGED writable
  /\ IF writable
       THEN /\ file' = IF slots[c].op = "save"
                         THEN WrittenFile(SaveDocument(LoadDesignDocument(file).value,
                                                       slots[c].kind, slots[c].arg))
                         ELSE WrittenFile(slots[c].pending)
            /\ slots' = [slots EXCEPT ![c].pc = "done"]
       ELSE /\ file' = file
            /\ slots' = [slots EXCEPT ![c].pc = "done",
                                      ![c].res = Failure("DESIGN_SAVE_FAILED")]

\* mutant of Write: the failure is reported after the document was replaced
WriteFailsAfterWriting(c) ==
  /\ slots[c].pc = "loaded"
  /\ UNCHANGED writable
  /\ file' = WrittenFile(slots[c].pending)
  /\ IF writable
       THEN slots' = [slots EXCEPT ![c].pc = "done"]
       ELSE slots' = [slots EXCEPT ![c].pc = "done",
                                   ![c].res = Failure("DESIGN_SAVE_FAILED")]

\* saveDesignDocument(updatedDocument) and the return of save / delete
Write(c) ==
  /\ slots[c].pc = "loaded"
  /\ UNCHANGED writable
  /\ IF writable
       THEN /\ file' = WrittenFile(slots[c].pending)
            /\ slots' = [slots EXCEPT ![c].pc = "done"]
       ELSE /\ file' = file
            /\ slots' = [slots EXCEPT ![c].pc = "done",
                                      ![c].res = Failure("DESIGN_SAVE_FAILED")]

\* the read operations: one read of the file, then the result
Read(c, op, kind, arg, res) ==
  /\ slots[c].pc # "loaded"
  /\ UNCHANGED <<file, writable>>
  /\ Returned(c, op, kind, arg, res)

FindByNameCall(c, kind, raw) ==
  /\ NameCreate(kind, Str(raw)).success
  /\ LET name == NameCreate(kind, Str(raw)).value
     IN Read(c, "findByName", kind, [name |-> name], FindByName(file, kind, name))

ExistsCall(c, kind, raw) ==
  /\ NameCreate(kind, Str(raw)).success
  /\ LET name == NameCreate(kind, Str(raw)).value
     IN Read(c, "exists", kind, [name |-> name], Exists(file, kind, name))

FindAllCall(c, kind) == Read(c, "findAll", kind, Undefined, FindAll(file, kind))

GetListCall(c, kind) == Read(c, "getList", kind, Undefined, GetList(file, kind))

CountCall(c, kind) == Read(c, "count", kind, Undefined, Count(file, kind))

FindByNamesCall(c, kind, names) ==
  Read(c, "findByNames", kind, [names |-> names], FindByNames(file, kind, names))

\* sequential run: one call at a time, each after the previous one returned
Next ==
  \E kind \in Kinds :
    \/ \E data \in Payloads(kind) : SaveLoad(1, kind, data)
    \/ \E raw \in RawNames(kind) : DeleteLoad(1, kind, raw)
    \/ Write(1)
    \/ \E raw \in RawNames(kind) : FindByNameCall(1, kind, raw)
    \/ CountCall(1, kind)

Spec == Init /\ [][Next]_vars

\* interleaved run: every slot runs one mutating call, steps in any order
NextRace ==
  \E c \in Slots :
    \/ \E kind \in Kinds :
         \/ \E data \in Payloads(kind) : slots[c].pc = "idle" /\ SaveLoad(c, kind, data)
         \/ \E raw \in RawNames(kind) : slots[c].pc = "idle" /\ DeleteLoad(c, kind, raw)
    \/ Write(c)

SpecRace == Init /\ [][NextRace]_vars

\* the read operations as functions of the stored document: the file holds a
\* document of up to MaxLen stored records in one collection (the other one is
\* empty or holds one valid record), and one read is made
StoredFeatures ==
  {FeatureData(<<"a">>, <<"p">>), FeatureData(<<"b">>, <<"p">>),
   FeatureData(<<" ", "a">>, <<"p">>), BlankPurposeFeature, BlankPurposeDuplicate,
   NoSectionFeature}

StoredTerms ==
  {TermData(<<"t">>, <<"d">>), TermData(<<"g">>, <<"d">>), NoDetailsTerm,
   BlankDefinitionDuplicate}

SeqsUpTo(S, n) == UNION {[1..k -> S] : k \in 0..n}

ReadFiles ==
  {JsonFile(Arr(fs), Arr(ts)) :
     fs \in SeqsUpTo(StoredFeatures, MaxLen),
     ts \in {<<>>, <<TermData(<<"t">>, <<"d">>)>>}}
  \cup
  {JsonFile(Arr(fs), Arr(ts)) :
     fs \in {<<>>, <<FeatureData(<<"a">>, <<"p">>)>>},
     ts \in SeqsUpTo(StoredTerms, MaxLen)}

InitRead ==
  /\ file \in ReadFiles
  /\ writable = TRUE
  /\ slots = [c \in Slots |-> IdleSlot]

NextRead ==
  \E kind \in Kinds :
    \/ \E raw \in RawNames(kind) : slots[1].pc = "idle" /\ FindByNameCall(1, kind, raw)
    \/ \E raw \in RawNames(kind) : slots[1].pc = "idle" /\ ExistsCall(1, kind, raw)
    \/ slots[1].pc = "idle" /\ FindAllCall(1, kind)
    \/ slots[1].pc = "idle" /\ GetListCall(1, kind)
    \/ slots[1].pc = "idle" /\ CountCall(1, kind)
    \/ \E names \in NameLists(kind) : slots[1].pc = "idle" /\ FindByNamesCall(1, kind, names)

SpecRead == InitRead /\ [][NextRead]_vars

\* every repository operation, one call at a time, on every storage condition:
\* file missing, not JSON, JSON with valid and with malformed records, and
\* writes that succeed or fail
StorageFiles == InitFiles \cup {EnoentGarbageFile}

InitStorage ==
  /\ file \in StorageFiles
  /\ writable \in BOOLEAN
  /\ slots = [c \in Slots |-> IdleSlot]

NextStorage ==
  \E kind \in Kinds :
    \/ \E data \in Payloads(kind) : SaveLoad(1, kind, data)
    \/ \E raw \in RawNames(kind) : DeleteLoad(1, kind, raw)
    \/ Write(1)
    \/ \E raw \in RawNames(kind) : FindByNameCall(1, kind, raw)
    \/ \E raw \in RawNames(kind) : ExistsCall(1, kind, raw)
    \/ FindAllCall(1, kind)
    \/ GetListCall(1, kind)
    \/ CountCall(1, kind)
    \/ \E names \in {l \in NameLists(kind) : Len(l) <= 1} :
         FindByNamesCall(1, kind, names)

SpecStorage == InitStorage /\ [][NextStorage]_vars

(***************************************************************************)
(* The factories as functions of their argument: one call of               *)
(* FeatureName.create / TermName.create on a string, or of Feature.create  *)
(* / Term.create on a payload as it arrives from JSON (any shape).         *)
(***************************************************************************)
NameChars == {"a", "1", "_", "-", " "}
NameStrings == SeqsUpTo(NameChars, MaxNameLen)

FeatureRecord(name, purpose, inputs, outputs, coreLogicSteps) ==
  Obj([inputs |-> inputs,
       outputs |-> outputs,
       feature |-> Obj([name |-> name, purpose |-> purpose, userStories |-> Arr(<<>>)]),
       coreLogicSteps |-> coreLogicSteps,
       errorHandling |-> Arr(<<>>),
       nonFunctionalRequirements |-> Arr(<<>>),
       documentationNotes |-> Arr(<<>>)])

ValidInput ==
  Obj([name |-> Str(<<"a">>), purpose |-> Str(<<"p">>),
       constraints |-> Arr(<<>>), dataTypeDescription |-> Str(<<"d">>)])
ValidOutput ==
  Obj([condition |-> Str(<<"c">>), dataDescription |-> Str(<<"d">>),
       structureHint |-> Obj([type |-> Str(<<"o">>)])])
Step(stepNumber) ==
  Obj([inputs |-> Arr(<<>>), output |-> Str(<<"e">>),
       stepNumber |-> stepNumber, description |-> Str(<<"d">>)])

\* values of the inputs / outputs fields: arrays of valid and invalid elements,
\* a missing field, a field that is not an array
InputsValues ==
  {Arr(<<>>), Arr(<<ValidInput>>), Arr(<<Obj([name |-> Str(<<" ">>)])>>),
   Undefined, Str(<<"a">>)}
OutputsValues == {Arr(<<>>), Arr(<<ValidOutput>>), Undefined}

StepNumbers == {Num(0), Num(1), Num(2), Num(4), NaN, Str(<<"1">>)}
StepsValues ==
  {Arr(steps) : steps \in SeqsUpTo({Step(n) : n \in StepNumbers}, MaxSteps)}
  \cup {Undefined}

FeatureCreatePayloads ==
  {FeatureRecord(Str(<<"a">>), Str(<<"p">>), Arr(<<>>), Arr(<<>>), steps) :
     steps \in StepsValues}
  \cup
  {FeatureRecord(name, purpose, inputs, outputs, Arr(<<Step(Num(1))>>)) :
     name \in {Str(<<"a">>), Str(<<" ", "a">>), Str(<<"1">>), Undefined},
     purpose \in {Str(<<"p">>), Str(<<" ">>), Undefined},
     inputs \in InputsValues,
     outputs \in OutputsValues}
  \cup {Null, NoSectionFeature}

TermRecord(name, definition, context, details, relationships, implementation) ==
  Obj([term |-> Obj([name |-> name, context |-> context,
                     definition |-> definition, aliases |-> Arr(<<>>)]),
       details |-> details,
       relationships |-> relationships,
       implementation |-> implementation])

ValidContext == Obj([boundedContext |-> Str(<<"b">>), scope |-> Str(<<"c">>)])
Details(examples) ==
  Obj([examples |-> examples, category |-> Str(<<"g">>),
       ambiguitiesAndBoundaries |-> Arr(<<>>)])
Relationships(relatedTerms) ==
  Obj([relatedTerms |-> relatedTerms, associatedFunctions |-> Arr(<<>>)])
ValidImplementation ==
  Obj([codeMapping |-> Str(<<"c">>), dataStructureHint |-> Obj([type |-> Str(<<"o">>)]),
       constraints |-> Arr(<<>>)])

TermCreatePayloads ==
  {TermRecord(name, definition, ValidContext, details, relationships, ValidImplementation) :
     name \in {Str(<<"t">>), Str(<<"t", " ">>), Str(<<"!">>)},
     definition \in {Str(<<"d">>), Str(<<" ">>), Undefined},
     details \in {Details(Arr(<<>>)), Details(Undefined),
                  Details(Arr(<<Obj([scenario |-> Str(<<"s">>)])>>)), Undefined},
     relationships \in {Relationships(Arr(<<>>)), Relationships(Undefined), Undefined}}
  \cup
  {TermRecord(Str(<<"t">>), Str(<<"d">>), Undefined, Details(Arr(<<>>)),
              Relationships(Arr(<<>>)), Undefined),
   Null, NoDetailsTerm}

CreatePayloads(kind) ==
  IF kind = "feature" THEN FeatureCreatePayloads ELSE TermCreatePayloads

\* FeatureName.create(raw) / TermName.create(raw)
NameCreateCall(c, kind, raw) ==
  Read(c, "nameCreate", kind, [raw |-> raw], NameCreate(kind, Str(raw)))

\* Feature.create(data) / Term.create(data); res is the outcome of the call
EntityCreateCall(c, kind, data) ==
  Read(c, "create", kind, [data |-> data], Create(kind, data))

InitCreate ==
  /\ file = MissingFile
  /\ writable = TRUE
  /\ slots = [c \in Slots |-> IdleSlot]

NextCreate ==
  \E kind \in Kinds :
    \/ \E raw \in NameStrings : slots[1].pc = "idle" /\ NameCreateCall(1, kind, raw)
    \/ \E data \in CreatePayloads(kind) :
         slots[1].pc = "idle" /\ EntityCreateCall(1, kind, data)

SpecCreate == InitCreate /\ [][NextCreate]_vars

(***************************************************************************)
(* The use cases.  execute runs inside one try/catch: a throw of a factory *)
(* or a rejection of a repository call is returned as a failure.  In a run *)
(* of one call at a time the file does not change between the repository   *)
(* calls of one execute, so an execute is one step up to the await of      *)
(* saveDesignDocument and Write is its last step.                          *)
(***************************************************************************)
RepositoryCall(op, kind, arg) == [kind |-> kind, op |-> op, arg |-> arg]

\* the slot after execute ran up to its return or to the write inside the
\* repository: outcome holds the result, the repository calls made and, when a
\* write is about to be made (write), the document to write
UseCaseHandled(c, op, kind, arg, outcome) ==
  slots' = [slots EXCEPT ![c] =
              [kind |-> kind,
               pc |-> IF outcome.write THEN "loaded" ELSE "done",
               op |-> op, arg |-> arg, before |-> file,
               pending |-> outcome.pending, res |-> outcome.res,
               prev |-> Undefined, calls |-> outcome.calls]]

\* names.map(name => FeatureName.create(name))
RECURSIVE NameResults(_, _)
NameResults(kind, names) ==
  IF names = <<>> THEN <<>>
  ELSE <<NameCreate(kind, Head(names))>> \o NameResults(kind, Tail(names))

\* results.filter(result => result.success).map(result => result.value)
RECURSIVE ValidNamesOf(_)
ValidNamesOf(nameResults) ==
  IF nameResults = <<>> THEN <<>>
  ELSE (IF Head(nameResults).success THEN <<Head(nameResults).value>> ELSE <<>>)
       \o ValidNamesOf(Tail(nameResults))

\* nameResults.filter(result => !result.success).length > 0
HasInvalidName(nameResults) ==
  \E k \in 1..Len(nameResults) : ~nameResults[k].success

\* mutant of GetEntities: the names that convert are looked up, the others dropped
GetEntitiesDropsInvalid(f, kind, names) ==
  IF ~IsArray(names) \/ names.v = <<>>
    THEN [calls |-> <<>>, result |-> Success([found |-> <<>>, notFound |-> <<>>])]
  ELSE LET validNames == ValidNamesOf(NameResults(kind, names.v))
       IN [calls |-> <<RepositoryCall("findByNames", kind, validNames)>>,
           result |-> FindByNames(f, kind, validNames)]

\* getFeatures(featureNames) / getTerms(termNames): the result and the
\* repository calls made
GetEntities(f, kind, names) ==
  IF ~IsArray(names) \/ names.v = <<>>
    THEN [calls |-> <<>>, result |-> Success([found |-> <<>>, notFound |-> <<>>])]
  ELSE LET nameResults == NameResults(kind, names.v)
           validNames == ValidNamesOf(nameResults)
       IN IF HasInvalidName(nameResults)
            THEN [calls |-> <<>>, result |-> Failure("InvalidNames")]
            ELSE [calls |-> <<RepositoryCall("findByNames", kind, validNames)>>,
                  result |-> FindByNames(f, kind, validNames)]

\* found.map(f => f.data)
RECURSIVE DataOf(_)
DataOf(found) ==
  IF found = <<>> THEN <<>> ELSE <<Head(found).data>> \o DataOf(Tail(found))

\* GetDetailsUseCase.execute(featureNames, termNames)
GetDetailsExecute(f, featureNames, termNames) ==
  LET featuresResult == GetEntities(f, "feature", featureNames)
      termsResult == GetEntities(f, "term", termNames)
      Return(res, calls) ==
        [pending |-> Undefined, res |-> res, calls |-> calls, write |-> FALSE]
  IN IF ~featuresResult.result.success
       THEN Return(Failure(featuresResult.result.error), featuresResult.calls)
     ELSE IF ~termsResult.result.success
       THEN Return(Failure(termsResult.result.error),
                   featuresResult.calls \o termsResult.calls)
     ELSE Return(Success([features |-> DataOf(featuresResult.result.value.found),
                          terms |-> DataOf(termsResult.result.value.found),
                          notFound |->
                            [featureNames |-> featuresResult.result.value.notFound,
                             termNames |-> termsResult.result.value.notFound]]),
                 featuresResult.calls \o termsResult.calls)

GetDetailsCall(c, featureNames, termNames) ==
  /\ slots[c].pc # "loaded"
  /\ UNCHANGED <<file, writable>>
  /\ UseCaseHandled(c, "getDetails", "both",
                    [featureNames |-> featureNames, termNames |-> termNames],
                    GetDetailsExecute(file, featureNames, termNames))

\* AddOrUpdateFeatureUseCase.execute(featureData) / AddOrUpdateTermUseCase
\* .execute(termData) on the file f, up to the await of saveDesignDocument
\* inside save: the result, the repository calls made, and the document save
\* is about to write (write is FALSE when execute returns before a write)
AddOrUpdateOutcome(f, kind, data) ==
  LET created == Create(kind, data)
      entity == Entity(created)
      existsResult == Exists(f, kind, entity.name)
      documentResult == LoadDesignDocument(f)
      items == documentResult.value[Coll(kind)].v
      isUpdate == FindIndex(kind, items, entity.name) > 0
      existsCall == RepositoryCall("exists", kind, entity.name)
      saveCall == RepositoryCall("save", kind, entity.name)
      Return(res, calls) ==
        [pending |-> Undefined, res |-> res, calls |-> calls, write |-> FALSE]
  IN IF created.kind = "throw" THEN Return(Failure("TypeError"), <<>>)
     ELSE IF created.kind = "fail" THEN Return(Failure(created.error), <<>>)
     ELSE IF ~existsResult.success
       THEN Return(Failure(existsResult.error), <<existsCall>>)
     ELSE IF ~documentResult.success
       THEN Return(Failure(documentResult.error), <<existsCall, saveCall>>)
     ELSE IF FindThrows(kind, items, entity.name)
       THEN Return(Failure("TypeError"), <<existsCall, saveCall>>)
     ELSE [pending |-> SaveDocument(documentResult.value, kind, entity),
           res |-> Success([isUpdate |-> isUpdate]),
           calls |-> <<existsCall, saveCall>>,
           write |-> TRUE]

\* the stored collection is capped at MaxLen records
WithinMaxLen(outcome, kind) ==
  outcome.write => Len(outcome.pending[Coll(kind)].v) <= MaxLen

AddOrUpdateExecute(c, kind, data) ==
  /\ slots[c].pc # "loaded"
  /\ UNCHANGED <<file, writable>>
  /\ WithinMaxLen(AddOrUpdateOutcome(file, kind, data), kind)
  /\ UseCaseHandled(c, "addOrUpdate", kind, [data |-> data],
                    AddOrUpdateOutcome(file, kind, data))

\* DeleteFeatureUseCase.execute(featureName) / DeleteTermUseCase.execute(termName)
\* on the file f, up to the await of saveDesignDocument inside delete
DeleteOutcome(f, kind, raw) ==
  LET nameResult == NameCreate(kind, Str(raw))
      name == nameResult.value
      documentResult == LoadDesignDocument(f)
      items == documentResult.value[Coll(kind)].v
      deleteCall == RepositoryCall("delete", kind, name)
      Return(res, calls) ==
        [pending |-> Undefined, res |-> res, calls |-> calls, write |-> FALSE]
  IN IF ~nameResult.success THEN Return(Failure(nameResult.error), <<>>)
     ELSE IF ~documentResult.success
       THEN Return(Failure(documentResult.error), <<deleteCall>>)
     ELSE IF FindThrows(kind, items, name)
       THEN Return(Failure("TypeError"), <<deleteCall>>)
     ELSE IF FindIndex(kind, items, name) = 0
       THEN Return(Success([found |-> FALSE]), <<deleteCall>>)
     ELSE [pending |-> DeleteDocument(documentResult.value, kind, name),
           res |-> Success([found |-> TRUE]),
           calls |-> <<deleteCall>>,
           write |-> TRUE]

DeleteExecute(c, kind, raw) ==
  /\ slots[c].pc # "loaded"
  /\ UNCHANGED <<file, writable>>
  /\ UseCaseHandled(c, "deleteExecute", kind, [name |-> raw],
                    DeleteOutcome(file, kind, raw))

\* payloads handed to the add-or-update use cases: two valid ones of the same
\* name, one that fails validation, a null payload and a payload without its
\* feature / term section
UseCasePayloads(kind) ==
  IF kind = "feature"
    THEN {FeatureData(<<"a">>, <<"p">>), FeatureData(<<"a">>, <<"q">>),
          FeatureData(<<"b">>, <<" ">>), Null, NoSectionFeature}
    ELSE {TermData(<<"t">>, <<"d">>), TermData(<<"t">>, <<"e">>),
          TermData(<<"!">>, <<"d">>), Null, Obj([details |-> Null])}

\* name lists handed to GetDetailsUseCase.execute: absent, empty, or up to
\* MaxNames raw strings (valid and stored, valid and not stored, invalid)
UseCaseNames(kind) ==
  IF kind = "feature" THEN {<<"a">>, <<"c">>, <<"1">>}
                      ELSE {<<"t">>, <<"u">>, <<>>}

UseCaseNameLists(kind) ==
  {Undefined} \cup
  {Arr(l) : l \in SeqsUpTo({Str(raw) : raw \in UseCaseNames(kind)}, MaxNames)}

\* the documents of the repository runs, and one whose records are stored
\* under the names "a" and "t" and fail entity validation
UseCaseFiles ==
  StorageFiles \cup
  {JsonFile(Arr(<<BlankPurposeDuplicate>>), Arr(<<BlankDefinitionDuplicate>>))}

InitUseCase ==
  /\ file \in UseCaseFiles
  /\ writable \in BOOLEAN
  /\ slots = [c \in Slots |-> IdleSlot]

NextUseCase ==
  \/ \E kind \in Kinds :
       \/ \E data \in UseCasePayloads(kind) : AddOrUpdateExecute(1, kind, data)
       \/ \E raw \in UseCaseNames(kind) : DeleteExecute(1, kind, raw)
       \/ Write(1)
  \/ \E featureNames \in UseCaseNameLists("feature"),
        termNames \in UseCaseNameLists("term") :
       slots[1].pc = "idle" /\ GetDetailsCall(1, featureNames, termNames)

SpecUseCase == InitUseCase /\ [][NextUseCase]_vars

\* term.category / term.boundedContext / term.isAssociatedWithFunction(value)
\* of an entity findAll returned
TermSelected(term, selector, value) ==
  IF selector = "category"
    THEN Get(Get(term.data, "details"), "category") = Str(value)
  ELSE IF selector = "boundedContext"
    THEN Get(Get(Get(term.data, "term"), "context"), "boundedContext") = Str(value)
  ELSE LET associatedFunctions ==
             Get(Get(term.data, "relationships"), "associatedFunctions").v
       IN \E k \in 1..Len(associatedFunctions) : associatedFunctions[k] = Str(value)

\* findByCategory / findByBoundedContext / findByAssociatedFunction of the term
\* repository: findAll, then a filter
FindTermsBy(f, selector, value) ==
  LET allTermsResult == FindAll(f, "term")
  IN IF ~allTermsResult.success THEN Failure(allTermsResult.error)
     ELSE Success(SelectSeq(allTermsResult.value,
                            LAMBDA term : TermSelected(term, selector, value)))

FindTermsByCall(c, selector, value) ==
  Read(c, "findTermsBy", "term", [value |-> value, selector |-> selector],
       FindTermsBy(file, selector, value))

\* every repository operation and every use case on every storage condition:
\* the mutating calls one at a time in any order, each read as the first call
\* on the document the run starts with
NextOutcome ==
  \/ \E featureNames \in {l \in UseCaseNameLists("feature") : IsArray(l) => Len(l.v) <= 1},
        termNames \in {l \in UseCaseNameLists("term") : IsArray(l) => Len(l.v) <= 1} :
       slots[1].pc = "idle" /\ GetDetailsCall(1, featureNames, termNames)
  \/ \E kind \in Kinds :
       \/ \E data \in UseCasePayloads(kind) : AddOrUpdateExecute(1, kind, data)
       \/ \E raw \in UseCaseNames(kind) : DeleteExecute(1, kind, raw)
       \/ Write(1)
       \/ \E data \in UseCasePayloads(kind) : SaveLoad(1, kind, data)
       \/ \E raw \in UseCaseNames(kind) : DeleteLoad(1, kind, raw)
       \/ \E raw \in UseCaseNames(kind) :
            slots[1].pc = "idle" /\ FindByNameCall(1, kind, raw)
       \/ \E raw \in UseCaseNames(kind) : slots[1].pc = "idle" /\ ExistsCall(1, kind, raw)
       \/ slots[1].pc = "idle" /\ FindAllCall(1, kind)
       \/ slots[1].pc = "idle" /\ GetListCall(1, kind)
       \/ slots[1].pc = "idle" /\ CountCall(1, kind)
       \/ \E names \in {l \in NameLists(kind) : Len(l) <= 1} :
            slots[1].pc = "idle" /\ FindByNamesCall(1, kind, names)
  \/ \E selector \in {"category", "boundedContext", "associatedFunction"},
        value \in {<<"g">>, <<"b">>} :
       slots[1].pc = "idle" /\ FindTermsByCall(1, selector, value)

SpecOutcome == InitUseCase /\ [][NextOutcome]_vars

(***************************************************************************)
(* The REST handlers.  A slot holds one HTTP exchange: op is the route, arg *)
(* the request (body.feature / body.term, or the :name parameter), calls   *)
(* the calls the handler made, res the Result of the last of them, and     *)
(* prev the exchanges the client completed before, oldest first.  The      *)
(* response is a function of these (RestStatus, RestData).                 *)
(***************************************************************************)
PostRoute == "POST /api/features"
DeleteRoute == "DELETE /api/features/:name"
ListRoute == "GET /api/resources/features"

\* AddOrUpdateFeatureUseCase.validateInput / AddOrUpdateTermUseCase.validateInput
ValidateInput(kind, data) ==
  LET section == Get(data, kind)
      name == Get(section, "name")
  IN IF ~IsObject(data) THEN Failure("noData")
     ELSE IF ~IsObject(section) THEN Failure("badSection")
     ELSE IF ~IsString(name) \/ name.v = <<>> THEN Failure("badName")
     ELSE IF ~NameCreate(kind, name).success THEN Failure("badNameFormat")
     ELSE Success(Undefined)

\* DeleteFeatureUseCase.validateInput / DeleteTermUseCase.validateInput on the
\* :name parameter (a string)
ValidateName(kind, raw) ==
  IF raw = <<>> THEN Failure("noName")
  ELSE IF Trim(raw) = <<>> THEN Failure("emptyName")
  ELSE IF ~NameCreate(kind, Str(raw)).success THEN Failure("badNameFormat")
  ELSE Success(Undefined)

HandlerCall(op) == RepositoryCall(op, "none", Undefined)
Executed(slot) == \E k \in 1..Len(slot.calls) : slot.calls[k].op = "execute"

\* res.status(...) of the handler whose exchange the slot holds
RestStatus(slot) ==
  IF slot.op = ListRoute
    THEN (IF slot.res.success THEN 200 ELSE 500)
  ELSE IF ~Executed(slot) THEN 400
  ELSE IF ~slot.res.success THEN 500
  ELSE IF slot.op = PostRoute
    THEN (IF slot.res.value.isUpdate THEN 200 ELSE 201)
  ELSE (IF slot.res.value.found THEN 200 ELSE 404)

\* the data member of the response body (Undefined in an error body)
RestData(slot) ==
  IF RestStatus(slot) \notin {200, 201} THEN Undefined
  ELSE IF slot.op = ListRoute THEN Arr(slot.res.value)
  ELSE IF slot.op = PostRoute
    THEN Obj([isUpdate |-> slot.res.value.isUpdate,
              featureName |-> StoredName(slot.kind, slot.arg.data)])
  ELSE Obj([featureName |-> Str(slot.arg.name), deleted |-> TRUE])

\* the exchanges completed in slot c, the one it holds included
RestHistory(c) ==
  IF slots[c].pc = "idle" THEN <<>>
  ELSE Append(slots[c].prev,
              [data |-> RestData(slots[c]), op |-> slots[c].op,
               arg |-> slots[c].arg, status |-> RestStatus(slots[c])])

\* the slot after the handler ran up to its response or to the write inside
\* the use case
RestHandled(c, op, kind, arg, outcome) ==
  slots' = [slots EXCEPT ![c] =
              [kind |-> kind,
               pc |-> IF outcome.write THEN "loaded" ELSE "done",
               op |-> op, arg |-> arg, before |-> file,
               pending |-> outcome.pending, res |-> outcome.res,
               prev |-> RestHistory(c), calls |-> outcome.calls]]

\* RestHandlers.addOrUpdateFeature / addOrUpdateTerm; data is req.body.feature
RestAddOrUpdate(c, kind, data) ==
  LET validationResult == ValidateInput(kind, data)
      executed == AddOrUpdateOutcome(file, kind, data)
      outcome ==
        IF ~validationResult.success
          THEN [pending |-> Undefined, res |-> Failure(validationResult.error),
                calls |-> <<HandlerCall("validateInput")>>,
                write |-> FALSE]
          ELSE [executed EXCEPT
                  !.calls = <<HandlerCall("validateInput"), HandlerCall("execute")>>]
  IN /\ slots[c].pc # "loaded"
     /\ Len(RestHistory(c)) < MaxExchanges
     /\ UNCHANGED <<file, writable>>
     /\ WithinMaxLen(outcome, kind)
     /\ RestHandled(c, PostRoute, kind, [data |-> data], outcome)

\* RestHandlers.deleteFeature / deleteTerm; raw is req.params.name
RestDelete(c, kind, raw) ==
  LET validationResult == ValidateName(kind, raw)
      executed == DeleteOutcome(file, kind, raw)
      outcome ==
        IF ~validationResult.success
          THEN [pending |-> Undefined, res |-> Failure(validationResult.error),
                calls |-> <<HandlerCall("validateInput")>>,
                write |-> FALSE]
          ELSE [executed EXCEPT
                  !.calls = <<HandlerCall("validateInput"), HandlerCall("execute")>>]
  IN /\ slots[c].pc # "loaded"
     /\ Len(RestHistory(c)) < MaxExchanges
     /\ UNCHANGED <<file, writable>>
     /\ RestHandled(c, DeleteRoute, kind, [name |-> raw], outcome)

\* RestHandlers.getFeaturesList / getTermsList
RestGetList(c, kind) ==
  /\ slots[c].pc # "loaded"
  /\ Len(RestHistory(c)) < MaxExchanges
  /\ UNCHANGED <<file, writable>>
  /\ RestHandled(c, ListRoute, kind, Undefined,
                 [pending |-> Undefined, res |-> GetList(file, kind),
                  calls |-> <<HandlerCall("getList")>>, write |-> FALSE])

\* request bodies of the client: features that pass Feature.create, under each
\* of two names with two purposes; :name parameters: these names and one that
\* fails validateInput
RestPayloads ==
  {FeatureData(name, purpose) :
     name \in {<<"a">>, <<" ", "a">>}, purpose \in {<<"p">>, <<"q">>}}
RestNames == {<<"a">>, <<" ", "a">>, <<"1">>}

\* the REST server on an empty document that can be written; the client sends
\* one request at a time, up to MaxExchanges of them
InitRest ==
  /\ file \in {MissingFile, JsonFile(Arr(<<>>), Arr(<<>>))}
  /\ writable = TRUE
  /\ slots = [c \in Slots |-> IdleSlot]

NextRest ==
  \/ \E data \in RestPayloads : RestAddOrUpdate(1, "feature", data)
  \/ \E raw \in RestNames : RestDelete(1, "feature", raw)
  \/ RestGetList(1, "feature")
  \/ Write(1)

SpecRest == InitRest /\ [][NextRest]_vars

(***************************************************************************)
(* POST /api/features and POST /api/terms on their own: bodies that pass,  *)
(* bodies whose name is rejected, bodies with a valid name that fail       *)
(* Feature.create / Term.create, on a file that loads or not and that can  *)
(* be written or not.                                                      *)
(***************************************************************************)
DuplicateStepFeature ==
  FeatureRecord(Str(<<"a">>), Str(<<"p">>), Arr(<<>>), Arr(<<>>),
                Arr(<<Step(Num(1)), Step(Num(1))>>))

PostPayloads(kind) ==
  IF kind = "feature"
    THEN {FeatureData(<<"a">>, <<"p">>), FeatureData(<<"1">>, <<"p">>),
          BlankPurposeDuplicate, DuplicateStepFeature, Null}
    ELSE {TermData(<<"t">>, <<"d">>), TermData(<<"!">>, <<"d">>),
          BlankDefinitionDuplicate, Null}

InitPost ==
  /\ file \in {MissingFile, GarbageFile, JsonFile(Arr(<<>>), Arr(<<>>))}
  /\ writable \in BOOLEAN
  /\ slots = [c \in Slots |-> IdleSlot]

NextPost ==
  \/ \E kind \in Kinds : \E data \in PostPayloads(kind) :
       /\ Len(RestHistory(1)) < MaxPosts
       /\ RestAddOrUpdate(1, kind, data)
  \/ Write(1)

SpecPost == InitPost /\ [][NextPost]_vars

(***************************************************************************)
(* The health check (RestHandlers.healthCheck; ClineSupportServer and      *)
(* RestServer.healthCheck compute the same status and details).  The two   *)
(* repositories are injected: the file-system one, or one whose count      *)
(* resolves to a failure or rejects (the test doubles).  A slot holds one  *)
(* check: arg the two repositories, pending the feature count's Result     *)
(* while the term count is awaited (pc "counted"), res the response.       *)
(***************************************************************************)
HealthRoute == "GET /api/health"
Repositories == {"fileSystem", "failing", "rejecting"}
Thrown == [kind |-> "throw"]

\* await repository.count()
RepositoryCount(repository, f, kind) ==
  IF repository = "fileSystem" THEN Count(f, kind)
  ELSE IF repository = "failing" THEN Failure("error")
  ELSE Thrown

\* mutant of HealthData: the status looks at the feature repository only
HealthDataFeatureOnly(featureRepoHealthy, termRepoHealthy) ==
  [details |-> [featureRepository |-> featureRepoHealthy,
                termRepository |-> termRepoHealthy],
   status |-> IF featureRepoHealthy THEN "healthy" ELSE "unhealthy",
   code |-> IF featureRepoHealthy THEN 200 ELSE 503]

\* healthData and the status of the response
HealthData(featureRepoHealthy, termRepoHealthy) ==
  [details |-> [featureRepository |-> featureRepoHealthy,
                termRepository |-> termRepoHealthy],
   status |-> IF featureRepoHealthy /\ termRepoHealthy THEN "healthy" ELSE "unhealthy",
   code |-> IF featureRepoHealthy /\ termRepoHealthy THEN 200 ELSE 503]

\* the response of the catch block
HealthCaught ==
  [details |-> [featureRepository |-> FALSE, termRepository |-> FALSE],
   status |-> "unhealthy",
   code |-> 503]

\* healthCheck up to the await of termRepository.count()
HealthFeatureCount(c, repositories) ==
  LET featureCountResult == RepositoryCount(repositories.featureRepository, file, "feature")
  IN /\ slots[c].pc \in {"idle", "done"}
     /\ UNCHANGED <<file, writable>>
     /\ slots' = [slots EXCEPT ![c] =
                    [kind |-> "both",
                     pc |-> IF featureCountResult = Thrown THEN "done" ELSE "counted",
                     op |-> HealthRoute, arg |-> repositories, before |-> file,
                     pending |-> featureCountResult,
                     res |-> IF featureCountResult = Thrown THEN HealthCaught
                             ELSE Undefined,
                     prev |-> Undefined,
                     calls |-> <<RepositoryCall("count", "feature", Undefined)>>]]

\* the rest of healthCheck
HealthTermCount(c) ==
  LET termCountResult == RepositoryCount(slots[c].arg.termRepository, file, "term")
  IN /\ slots[c].pc = "counted"
     /\ UNCHANGED <<file, writable>>
     /\ slots' = [slots EXCEPT
                    ![c].pc = "done",
                    ![c].calls = Append(@, RepositoryCall("count", "term", Undefined)),
                    ![c].res = IF termCountResult = Thrown THEN HealthCaught
                               ELSE HealthData(slots[c].pending.success,
                                               termCountResult.success)]

NextHealth ==
  \/ \E f \in Repositories, t \in Repositories :
       HealthFeatureCount(1, [featureRepository |-> f, termRepository |-> t])
  \/ HealthTermCount(1)

SpecHealth == Init /\ [][NextHealth]_vars

(***************************************************************************)
(* Server start-up (ClineSupportServer.run and RestServer.run with their   *)
(* initializeData).  A slot holds one run: kind is the server, arg the     *)
(* injected repositories and whether the transport can be started, calls   *)
(* what run has called so far, res how the run ended.  pc is "counted"     *)
(* after a successful feature count, "initialized" once initializeData has *)
(* returned, "done" once the transport is started or the process exited.   *)
(***************************************************************************)
Servers == {"mcp", "rest"}
\* server.connect(transport) / app.listen(port, host, callback)
Transport(server) == IF server = "mcp" THEN "connect" ELSE "listen"
Exit(code) == [exitCode |-> code]
Running == [started |-> TRUE]

\* mutant of AfterCount: a failed count ends the start-up
AfterCountFailFast(countResult, next) ==
  IF countResult = Thrown THEN "done"
  ELSE IF ~countResult.success THEN "done"
  ELSE next

\* initializeData after a count: a rejected count is rethrown to run, whose
\* catch exits; a failed count is logged and initializeData returns
AfterCount(countResult, next) ==
  IF countResult = Thrown THEN "done"
  ELSE IF ~countResult.success THEN "initialized"
  ELSE next

\* what run and initializeData call after a count, given where they go on
CountCalled(kind, countResult, pc) ==
  <<RepositoryCall("count", kind, Undefined)>>
  \o (IF countResult = Thrown \/ ~countResult.success
        THEN <<RepositoryCall("log", kind, Undefined)>> ELSE <<>>)
  \o (IF pc = "done" THEN <<RepositoryCall("exit", "none", 1)>> ELSE <<>>)

\* run up to the await of termRepository.count()
RunFeatureCount(c, server, arg) ==
  LET featureCountResult == RepositoryCount(arg.featureRepository, file, "feature")
      pc == AfterCount(featureCountResult, "counted")
  IN /\ slots[c].pc = "idle"
     /\ UNCHANGED <<file, writable>>
     /\ slots' = [slots EXCEPT ![c] =
                    [kind |-> server, pc |-> pc, op |-> "run", arg |-> arg,
                     before |-> file, pending |-> Undefined,
                     res |-> IF pc = "done" THEN Exit(1) ELSE Undefined,
                     prev |-> Undefined,
                     calls |-> CountCalled("feature", featureCountResult, pc)]]

\* the rest of initializeData
RunTermCount(c) ==
  LET termCountResult == RepositoryCount(slots[c].arg.termRepository, file, "term")
      pc == AfterCount(termCountResult, "initialized")
  IN /\ slots[c].op = "run" /\ slots[c].pc = "counted"
     /\ UNCHANGED <<file, writable>>
     /\ slots' = [slots EXCEPT
                    ![c].pc = pc,
                    ![c].res = IF pc = "done" THEN Exit(1) ELSE Undefined,
                    ![c].calls = @ \o CountCalled("term", termCountResult, pc)]

\* run after initializeData: the transport
RunTransport(c) ==
  LET started == RepositoryCall(Transport(slots[c].kind), "none", Undefined)
  IN /\ slots[c].op = "run" /\ slots[c].pc = "initialized"
     /\ UNCHANGED <<file, writable>>
     /\ slots' = [slots EXCEPT
                    ![c].pc = "done",
                    ![c].res = IF slots[c].arg.transport THEN Running ELSE Exit(1),
                    ![c].calls =
                      IF slots[c].arg.transport
                        THEN Append(@, started)
                        ELSE @ \o <<started, RepositoryCall("exit", "none", 1)>>]

NextRun ==
  \/ \E server \in Servers, f \in Repositories, t \in Repositories, ok \in BOOLEAN :
       RunFeatureCount(1, server,
                       [featureRepository |-> f, termRepository |-> t, transport |-> ok])
  \/ RunTermCount(1)
  \/ RunTransport(1)

SpecRun == Init /\ [][NextRun]_vars

(***************************************************************************)
(* The MCP adapter: ToolHandlers.setupCallToolHandler and                  *)
(* ResourceHandlers.setupReadResourceHandler.  A slot holds one request:   *)
(* op is "callTool" or "readResource", arg the request parameters, calls   *)
(* the use-case calls (kind the entity, arg the use case) or repository    *)
(* calls the handler made, res the response or the McpError it threw.      *)
(***************************************************************************)
ToolNames ==
  {"add_or_update_feature", "delete_feature", "add_or_update_term", "delete_term",
   "get_details"}
ResourceUris == {"design://features/list", "design://terms/list", "design://statistics"}

McpError(code) == [mcpError |-> code]
ToolResult(isError) == [isError |-> isError]
ResourceContents(data) == [contents |-> data]

Answered(res, calls) == [pending |-> Undefined, res |-> res, calls |-> calls, write |-> FALSE]

\* the outcome of execute as the tool's response, after a successful validateInput
ToolExecuted(executed, kind, useCase) ==
  [executed EXCEPT
     !.res = ToolResult(IF executed.res.success /\ useCase = "Delete"
                          THEN ~executed.res.value.found
                          ELSE ~executed.res.success),
     !.calls = <<RepositoryCall("validateInput", kind, useCase),
                 RepositoryCall("execute", kind, useCase)>>]

\* handleAddOrUpdateFeature / handleAddOrUpdateTerm; data is args?.feature / args?.term
HandleAddOrUpdate(f, kind, data) ==
  IF ~ValidateInput(kind, data).success
    THEN Answered(ToolResult(TRUE), <<RepositoryCall("validateInput", kind, "AddOrUpdate")>>)
    ELSE ToolExecuted(AddOrUpdateOutcome(f, kind, data), kind, "AddOrUpdate")

\* handleDeleteFeature / handleDeleteTerm; name is args?.featureName / args?.termName
HandleDelete(f, kind, name) ==
  IF ~IsString(name) \/ ~ValidateName(kind, name.v).success
    THEN Answered(McpError("InvalidParams"),
                  <<RepositoryCall("validateInput", kind, "Delete")>>)
    ELSE ToolExecuted(DeleteOutcome(f, kind, name.v), kind, "Delete")

\* GetDetailsUseCase.validateInput on one of its two lists
ValidateNameList(kind, names) ==
  \/ names = Undefined
  \/ /\ IsArray(names)
     /\ \A k \in 1..Len(names.v) :
          IsString(names.v[k]) /\ NameCreate(kind, names.v[k]).success

\* handleGetDetails
HandleGetDetails(f, featureNames, termNames) ==
  IF ~(ValidateNameList("feature", featureNames) /\ ValidateNameList("term", termNames))
    THEN Answered(ToolResult(TRUE), <<RepositoryCall("validateInput", "both", "GetDetails")>>)
    ELSE ToolExecuted(GetDetailsExecute(f, featureNames, termNames), "both", "GetDetails")

\* mutant of CallToolOutcome: the switch has no default and falls into get_details
CallToolNoDefault(f, name, args) ==
  IF name = "add_or_update_feature" THEN HandleAddOrUpdate(f, "feature", Get(args, "feature"))
  ELSE IF name = "delete_feature" THEN HandleDelete(f, "feature", Get(args, "featureName"))
  ELSE IF name = "add_or_update_term" THEN HandleAddOrUpdate(f, "term", Get(args, "term"))
  ELSE IF name = "delete_term" THEN HandleDelete(f, "term", Get(args, "termName"))
  ELSE HandleGetDetails(f, Get(args, "featureNames"), Get(args, "termNames"))

\* the CallToolRequest handler: switch (name)
CallToolOutcome(f, name, args) ==
  IF name = "add_or_update_feature" THEN HandleAddOrUpdate(f, "feature", Get(args, "feature"))
  ELSE IF name = "delete_feature" THEN HandleDelete(f, "feature", Get(args, "featureName"))
  ELSE IF name = "add_or_update_term" THEN HandleAddOrUpdate(f, "term", Get(args, "term"))
  ELSE IF name = "delete_term" THEN HandleDelete(f, "term", Get(args, "termName"))
  ELSE IF name = "get_details"
    THEN HandleGetDetails(f, Get(args, "featureNames"), Get(args, "termNames"))
  ELSE Answered(McpError("MethodNotFound"), <<>>)

\* getFeaturesList / getTermsList of ResourceHandlers
ReadList(f, kind) ==
  LET result == GetList(f, kind)
  IN Answered(IF result.success THEN ResourceContents(result.value)
              ELSE McpError("InternalError"),
              <<RepositoryCall("getList", kind, Undefined)>>)

\* getStatistics of ResourceHandlers
ReadStatistics(f) ==
  LET featureCountResult == Count(f, "feature")
      termCountResult == Count(f, "term")
      featureCall == RepositoryCall("count", "feature", Undefined)
      termCall == RepositoryCall("count", "term", Undefined)
  IN IF ~featureCountResult.success
       THEN Answered(McpError("InternalError"), <<featureCall>>)
     ELSE IF ~termCountResult.success
       THEN Answered(McpError("InternalError"), <<featureCall, termCall>>)
     ELSE Answered(ResourceContents([featureCount |-> featureCountResult.value,
                                     termCount |-> termCountResult.value]),
                   <<featureCall, termCall>>)

\* the ReadResourceRequest handler: switch (uri); the McpError of the default
\* case is thrown inside the try and rethrown by the catch as InternalError
ReadResourceOutcome(f, uri) ==
  IF uri = "design://features/list" THEN ReadList(f, "feature")
  ELSE IF uri = "design://terms/list" THEN ReadList(f, "term")
  ELSE IF uri = "design://statistics" THEN ReadStatistics(f)
  ELSE Answered(McpError("InternalError"), <<>>)

CallTool(c, name, args) ==
  /\ slots[c].pc # "loaded"
  /\ UNCHANGED <<file, writable>>
  /\ UseCaseHandled(c, "callTool", "none", [name |-> name, arguments |-> args],
                    CallToolOutcome(file, name, args))

ReadResource(c, uri) ==
  /\ slots[c].pc # "loaded"
  /\ UNCHANGED <<file, writable>>
  /\ UseCaseHandled(c, "readResource", "none", [uri |-> uri],
                    ReadResourceOutcome(file, uri))

\* request.params.name / uri: the registered ones and others
RequestedTools == ToolNames \cup {"get_detail", "list_features"}
RequestedUris == ResourceUris \cup {"design://features", "design://statistics/"}

\* request.params.arguments
ToolArguments ==
  {Undefined,
   Obj([feature |-> FeatureData(<<"a">>, <<"p">>)]),
   Obj([term |-> TermData(<<"t">>, <<"d">>)]),
   Obj([featureName |-> Str(<<"a">>)]),
   Obj([termName |-> Str(<<"t">>)]),
   Obj([featureName |-> Str(<<"1">>), termName |-> Str(<<>>)]),
   Obj([featureNames |-> Arr(<<Str(<<"a">>)>>), termNames |-> Arr(<<Str(<<"t">>)>>)]),
   Obj([featureNames |-> Str(<<"a">>)])}

NextMcp ==
  \/ \E name \in RequestedTools, args \in ToolArguments : CallTool(1, name, args)
  \/ \E uri \in RequestedUris : ReadResource(1, uri)
  \/ Write(1)

SpecMcp == InitUseCase /\ [][NextMcp]_vars

(***************************************************************************)
(* delete on documents as an external edit can leave them: collections of  *)
(* valid and malformed records, with names that occur more than once.      *)
(***************************************************************************)
NextDelete ==
  \/ \E kind \in Kinds : \E raw \in RawNames(kind) : DeleteLoad(1, kind, raw)
  \/ Write(1)

SpecDelete == InitRead /\ [][NextDelete]_vars

(***************************************************************************)
(* The legacy DataManager: one in-memory designDocument, seeded from the   *)
(* file by initialize, mutated in place by every call and then written.    *)
(* A slot is the manager with the call it runs: pending is                 *)
(* this.designDocument, pc "loaded" is the await of saveDesignDocument,    *)
(* res the value the call resolved with, or a failure when it rejected.    *)
(***************************************************************************)
EmptyDocument == [features |-> Arr(<<>>), terms |-> Arr(<<>>)]

\* JSON.parse(fileContent) with a missing features / terms key replaced by []
ManagerParsed(f) ==
  [features |-> IF IsNullish(f.features) THEN Arr(<<>>) ELSE f.features,
   terms |-> IF IsNullish(f.terms) THEN Arr(<<>>) ELSE f.terms]

ManagerOps ==
  {"initialize", "addOrUpdate", "deleteLegacy", "hasFeature", "getStatistics"}

\* initialize has resolved and no call is running
ManagerReady(c) ==
  /\ slots[c].op \in ManagerOps
  /\ slots[c].pc = "done"
  /\ ~(slots[c].op = "initialize" /\ ~slots[c].res.success)

ManagerHandled(c, pc, op, kind, arg, designDocument, res) ==
  slots' = [slots EXCEPT ![c] =
              [kind |-> kind, pc |-> pc, op |-> op, arg |-> arg, before |-> file,
               pending |-> designDocument, res |-> res, prev |-> Undefined,
               calls |-> <<>>]]

\* initialize up to its return, or to the await of saveDesignDocument in its
\* catch block
ManagerInitialize(c) ==
  /\ slots[c].pc = "idle"
  /\ UNCHANGED <<file, writable>>
  /\ IF file.kind = "json"
       THEN ManagerHandled(c, "done", "initialize", "none", Undefined,
                           ManagerParsed(file), Success(Undefined))
       ELSE ManagerHandled(c, "loaded", "initialize", "none", Undefined,
                           EmptyDocument, Success(Undefined))

\* addOrUpdateFeature / addOrUpdateTerm up to the await of saveDesignDocument:
\* this.designDocument is already changed
ManagerSaved(designDocument, kind, data) ==
  SaveDocument(designDocument, kind,
               [data |-> data, name |-> StoredName(kind, data).v])

ManagerAddOrUpdate(c, kind, data) ==
  LET designDocument == slots[c].pending
      items == designDocument[Coll(kind)].v
      name == StoredName(kind, data).v
      isUpdate == FindIndex(kind, items, name) > 0
  IN /\ ManagerReady(c)
     /\ UNCHANGED <<file, writable>>
     /\ IF FindThrows(kind, items, name)
          THEN ManagerHandled(c, "done", "addOrUpdate", kind, [data |-> data],
                              designDocument, Failure("TypeError"))
          ELSE /\ isUpdate \/ Len(items) < MaxLen
               /\ ManagerHandled(c, "loaded", "addOrUpdate", kind, [data |-> data],
                                 ManagerSaved(designDocument, kind, data),
                                 Success([isUpdate |-> isUpdate]))

\* deleteFeature / deleteTerm up to the await of saveDesignDocument, or to
\* their return when the name is not found
ManagerDelete(c, kind, raw) ==
  LET designDocument == slots[c].pending
      items == designDocument[Coll(kind)].v
  IN /\ ManagerReady(c)
     /\ UNCHANGED <<file, writable>>
     /\ IF FindThrows(kind, items, raw)
          THEN ManagerHandled(c, "done", "deleteLegacy", kind, [name |-> raw],
                              designDocument, Failure("TypeError"))
        ELSE IF FindIndex(kind, items, raw) = 0
          THEN ManagerHandled(c, "done", "deleteLegacy", kind, [name |-> raw],
                              designDocument, Success([found |-> FALSE]))
        ELSE ManagerHandled(c, "loaded", "deleteLegacy", kind, [name |-> raw],
                            DeleteDocument(designDocument, kind, raw),
                            Success([found |-> TRUE]))

\* hasFeature(name) / hasTerm(name) on a document
HasFeature(designDocument, kind, raw) ==
  LET items == designDocument[Coll(kind)].v
  IN IF FindThrows(kind, items, raw) THEN Failure("TypeError")
     ELSE Success(FindIndex(kind, items, raw) > 0)

\* getStatistics() on a document
GetStatistics(designDocument) ==
  Success([featureCount |-> Len(designDocument.features.v),
           termCount |-> Len(designDocument.terms.v)])

ManagerHasFeature(c, kind, raw) ==
  /\ ManagerReady(c)
  /\ UNCHANGED <<file, writable>>
  /\ ManagerHandled(c, "done", "hasFeature", kind, [name |-> raw], slots[c].pending,
                    HasFeature(slots[c].pending, kind, raw))

ManagerGetStatistics(c) ==
  /\ ManagerReady(c)
  /\ UNCHANGED <<file, writable>>
  /\ ManagerHandled(c, "done", "getStatistics", "both", Undefined, slots[c].pending,
                    GetStatistics(slots[c].pending))

\* payloads and names of the manager's callers
ManagerPayloads(kind) ==
  IF kind = "feature"
    THEN {FeatureData(<<"a">>, <<"p">>), FeatureData(<<"a">>, <<"q">>),
          FeatureData(<<"b">>, <<"p">>)}
    ELSE {TermData(<<"t">>, <<"d">>), TermData(<<"t">>, <<"e">>)}
ManagerNames(kind) == IF kind = "feature" THEN {<<"a">>, <<"c">>} ELSE {<<"t">>, <<"u">>}

NextManager ==
  \/ ManagerInitialize(1)
  \/ \E kind \in Kinds :
       \/ \E data \in ManagerPayloads(kind) : ManagerAddOrUpdate(1, kind, data)
       \/ \E raw \in ManagerNames(kind) : ManagerDelete(1, kind, raw)
       \/ \E raw \in ManagerNames(kind) : ManagerHasFeature(1, kind, raw)
  \/ ManagerGetStatistics(1)
  \/ Write(1)

SpecManager == Init /\ [][NextManager]_vars

(***************************************************************************)
(* Properties.  The sequential run uses slot 1; S is that slot.            *)
(***************************************************************************)
S == slots[1]

\* the collection of a file as the repository loads it (a sequence of records)
Items(f, kind) == LoadDesignDocument(f).value[Coll(kind)].v

\* the entries of the collection the call does not work on
OtherItems(f, kind) == LoadDesignDocument(f).value[Other(kind)].v

Loadable(f) == LoadDesignDocument(f).success

\* some stored record of the collection has exactly this name
HasName(f, kind, name) ==
  \E k \in 1..Len(Items(f, kind)) : StoredName(kind, Items(f, kind)[k]) = Str(name)

\* C1 (round trip): in a sequential run, a findByName(e.name) that directly
\* follows a successful save(e) succeeds with Some(entity) whose data is e.data.
C1_RoundTrip ==
  [][(/\ S.pc = "done" /\ S.op = "save" /\ S.res.success
      /\ S'.op = "findByName" /\ S'.kind = S.kind /\ S'.arg.name = S.arg.name)
     => (/\ S'.res.success
         /\ S'.res.value.isSome
         /\ S'.res.value.value.data = S.arg.data)]_vars

\* C2 (upsert idempotence): a successful save(e) that reads a document without
\* a record named as e returns isUpdate=false; when the same save(e) directly
\* follows it, it returns isUpdate=true and leaves the collection's length as
\* the first save left it.
C2_UpsertIdempotence ==
  (S.pc = "done" /\ S.op = "save" /\ S.res.success)
  => /\ ~HasName(S.before, S.kind, S.arg.name) => S.res.value.isUpdate = FALSE
     /\ (S.prev # Undefined /\ S.prev.success /\ S.prev.value.isUpdate = FALSE)
        => /\ S.res.value.isUpdate = TRUE
           /\ Len(Items(file, S.kind)) = Len(Items(S.before, S.kind))

\* no two entries of the array share a name
UniqueIn(kind, collection) ==
  IsArray(collection)
  => \A i, j \in 1..Len(collection.v) :
        i < j => StoredName(kind, collection.v[i]) # StoredName(kind, collection.v[j])

UniqueNames(f) == UniqueIn("feature", f.features) /\ UniqueIn("term", f.terms)

\* C3 (name uniqueness): every document a sequential run of save and delete
\* calls reaches from a document with unique names has unique names in
\* features and in terms.
C3_NameUniqueness == UniqueNames(file)

\* slot c holds a save that has returned success
Saved(c) == slots[c].pc = "done" /\ slots[c].op = "save" /\ slots[c].res.success

\* the record saved by slot c is an entry of its collection in file f
Stored(f, c) ==
  /\ Loadable(f)
  /\ \E k \in 1..Len(Items(f, slots[c].kind)) :
       Items(f, slots[c].kind)[k] = Json(slots[c].arg.data)

\* two saves of different records that both read the same document, which held
\* neither record, and that have both returned success; no other call returned
LostUpdateCase(a, b) ==
  /\ a # b
  /\ Saved(a) /\ Saved(b)
  /\ slots[a].before = slots[b].before
  /\ slots[a].arg.data # slots[b].arg.data
  /\ ~Stored(slots[a].before, a) /\ ~Stored(slots[a].before, b)
  /\ \A c \in Slots \ {a, b} : slots[c].pc # "done"

\* C4 (lost update): when two saves of different records read the same
\* document and both return success, the persisted document never holds both
\* records: the mutation of the call that wrote first is lost, and neither
\* call reports an error.
C4_LostUpdate ==
  \A a, b \in Slots :
    LostUpdateCase(a, b) => ~(Stored(file, a) /\ Stored(file, b))

C4_Witness ==
  \E a, b \in Slots :
    LostUpdateCase(a, b) /\ ~Stored(file, a) /\ Stored(file, b)

C6_SaveFrame ==
  (S.pc = "done" /\ S.op = "save" /\ S.res.success)
  => LET old == Items(S.before, S.kind)
         new == Items(file, S.kind)
         same(k) == Matches(S.kind, old[k], S.arg.name)
     IN /\ OtherItems(file, S.kind) = OtherItems(S.before, S.kind)
        /\ IF S.res.value.isUpdate
             THEN /\ Len(new) = Len(old)
                  /\ \E i \in 1..Len(old) :
                       /\ same(i)
                       /\ \A j \in 1..(i - 1) : ~same(j)
                       /\ new[i] = Json(S.arg.data)
                       /\ \A j \in 1..Len(old) : j # i => new[j] = old[j]
             ELSE /\ Len(new) = Len(old) + 1
                  /\ \A j \in 1..Len(old) : ~same(j) /\ new[j] = old[j]
                  /\ new[Len(new)] = Json(S.arg.data)

\* an update in place of the first of two entries, next to a non-empty other collection
C6_Witness ==
  /\ S.pc = "done" /\ S.op = "save" /\ S.res.success
  /\ S.res.value.isUpdate
  /\ Len(Items(S.before, S.kind)) >= 2
  /\ Matches(S.kind, Items(S.before, S.kind)[1], S.arg.name)
  /\ Items(S.before, S.kind)[1] # S.arg.data
  /\ Len(OtherItems(file, S.kind)) >= 1

ValidRecord(kind, item) == Create(kind, item).kind = "ok"

\* a findByNames call of the sequential slot has returned on a loadable document
FindByNamesDone == S.pc = "done" /\ S.op = "findByNames" /\ Loadable(S.before)

\* items[k] is the first stored record named name
FirstNamed(kind, items, k, name) ==
  /\ Matches(kind, items[k], name)
  /\ \A j \in 1..(k - 1) : ~Matches(kind, items[j], name)

\* C8 (partial lookup): on a document whose records of the collection are all
\* valid, findByNames(names) succeeds; found holds, in request order, one entity
\* per requested name that a stored record has (the data of the first record
\* with that name), notFound holds, in request order, the requested names no
\* stored record has; the two lengths add up to the length of the request, and
\* an empty request gives two empty lists.
C8_PartialLookup ==
  (/\ FindByNamesDone
   /\ \A k \in 1..Len(Items(S.before, S.kind)) :
        ValidRecord(S.kind, Items(S.before, S.kind)[k]))
  => LET items == Items(S.before, S.kind)
         names == S.arg.names
         present(n) == HasName(S.before, S.kind, n)
         absent(n) == ~HasName(S.before, S.kind, n)
         hits == SelectSeq(names, present)
         found == S.res.value.found
         notFound == S.res.value.notFound
     IN /\ S.res.success
        /\ Len(found) = Len(hits)
        /\ \A i \in 1..Len(hits) :
             /\ found[i].name = hits[i]
             /\ \E k \in 1..Len(items) :
                  FirstNamed(S.kind, items, k, hits[i]) /\ found[i].data = items[k]
        /\ notFound = SelectSeq(names, absent)
        /\ Len(found) + Len(notFound) = Len(names)
        /\ names = <<>> => (found = <<>> /\ notFound = <<>>)

\* two names found in an order that is not the stored order, and one name absent
C8_Witness ==
  /\ FindByNamesDone /\ S.res.success
  /\ Len(S.res.value.found) >= 2
  /\ Len(S.res.value.notFound) >= 1
  /\ Len(Items(S.before, S.kind)) >= 2
  /\ S.res.value.found[1].data = Items(S.before, S.kind)[2]
  /\ S.res.value.found[2].data = Items(S.before, S.kind)[1]

\* C9 (fail-fast on corruption): on a document whose collection holds a record
\* that fails entity validation next to a valid one, findAll() returns a failure
\* and getList() succeeds with one summary per stored record.
C9_FailFastFindAll ==
  (/\ S.pc = "done" /\ S.op \in {"findAll", "getList"} /\ Loadable(S.before)
   /\ \E k \in 1..Len(Items(S.before, S.kind)) :
        ~ValidRecord(S.kind, Items(S.before, S.kind)[k])
   /\ \E k \in 1..Len(Items(S.before, S.kind)) :
        ValidRecord(S.kind, Items(S.before, S.kind)[k]))
  => /\ S.op = "findAll" => ~S.res.success
     /\ S.op = "getList" =>
          /\ S.res.success
          /\ Len(S.res.value) = Len(Items(S.before, S.kind))

\* C10 (findByNames fail-fast): when the record found for a requested name (the
\* first stored record with that name) fails entity validation the call returns
\* a failure and no found/notFound pair; when the call succeeds, notFound holds
\* no name that a stored record has, malformed or not.
C10_FindByNamesFailFast ==
  FindByNamesDone
  => LET items == Items(S.before, S.kind)
         names == S.arg.names
     IN /\ (\E i \in 1..Len(names) :
              \E k \in 1..Len(items) :
                FirstNamed(S.kind, items, k, names[i]) /\ ~ValidRecord(S.kind, items[k]))
           => ~S.res.success
        /\ S.res.success
           => \A i \in 1..Len(S.res.value.notFound) :
                ~HasName(S.before, S.kind, S.res.value.notFound[i])

\* a request with an absent name, a valid match and a match that fails validation
C10_Witness ==
  /\ FindByNamesDone /\ ~S.res.success
  /\ \E i \in 1..Len(S.arg.names) : ~HasName(S.before, S.kind, S.arg.names[i])
  /\ \E i \in 1..Len(S.arg.names) :
       \E k \in 1..Len(Items(S.before, S.kind)) :
         /\ FirstNamed(S.kind, Items(S.before, S.kind), k, S.arg.names[i])
         /\ ValidRecord(S.kind, Items(S.before, S.kind)[k])
  /\ \E i \in 1..Len(S.arg.names) :
       \E k \in 1..Len(Items(S.before, S.kind)) :
         /\ FirstNamed(S.kind, Items(S.before, S.kind), k, S.arg.names[i])
         /\ ~NameAccessThrows(S.kind, Items(S.before, S.kind)[k])
         /\ ~ValidRecord(S.kind, Items(S.before, S.kind)[k])

\* C11 (missing file): a call that read a missing file returns what it returns
\* on the empty document: count 0, findByName None, findAll and getList the
\* empty list, exists false, findByNames every name not found, delete
\* found=false with the file still missing; a save whose write succeeds returns
\* isUpdate=false and leaves a document holding exactly the saved record.
C11_MissingFile ==
  (S.pc = "done" /\ S.before.kind = "missing")
  => CASE S.op = "count" -> S.res = Success(0)
       [] S.op = "findByName" -> S.res = Success(None)
       [] S.op \in {"findAll", "getList"} -> S.res = Success(<<>>)
       [] S.op = "exists" -> S.res = Success(FALSE)
       [] S.op = "findByNames" ->
            S.res = Success([found |-> <<>>, notFound |-> S.arg.names])
       [] S.op = "delete" ->
            S.res = Success([found |-> FALSE]) /\ file = MissingFile
       [] S.op = "save" ->
            writable
            => /\ S.res = Success([isUpdate |-> FALSE])
               /\ file.kind = "json"
               /\ Items(file, S.kind) = <<Json(S.arg.data)>>
               /\ OtherItems(file, S.kind) = <<>>
       [] OTHER -> FALSE

\* a save on a missing file has created the document
C11_Witness ==
  /\ S.pc = "done" /\ S.op = "save" /\ S.before.kind = "missing"
  /\ S.res = Success([isUpdate |-> FALSE])
  /\ file.kind = "json"

\* the file exists and is not valid JSON
NotJson(f) == f.kind \in {"garbage", "garbage-enoent"}

\* C12 (malformed document): every call that read a file that is not valid JSON
\* returns the load failure, has no write step and leaves the file as it was.
C12_MalformedDocument ==
  (S.pc = "done" /\ NotJson(S.before))
  => /\ S.res = Failure("DESIGN_LOAD_FAILED")
     /\ S.pending = Undefined
     /\ file = S.before

\* the save or delete of the sequential slot has returned from a write step
\* that failed
FailedWrite ==
  /\ S.pc = "done" /\ S.op \in Mutating
  /\ S.pending # Undefined
  /\ ~writable

\* what a read operation returns on the document f
ReadResult(f, op, kind, arg) ==
  CASE op = "findByName" -> FindByName(f, kind, arg.name)
    [] op = "exists" -> Exists(f, kind, arg.name)
    [] op = "findAll" -> FindAll(f, kind)
    [] op = "getList" -> GetList(f, kind)
    [] op = "count" -> Count(f, kind)
    [] op = "findByNames" -> FindByNames(f, kind, arg.names)

\* C13 (persist failure): a save or delete whose write step fails returns the
\* save failure (no isUpdate / found), the file is the one the call read, and
\* a read that follows returns what it returns on the document the failed call
\* read.
C13_PersistFailure ==
  /\ [](FailedWrite => (S.res = Failure("DESIGN_SAVE_FAILED") /\ file = S.before))
  /\ [][(FailedWrite /\ S'.op \notin Mutating)
        => S'.res = ReadResult(S.before, S'.op, S'.kind, S'.arg)]_vars

\* a save of a new record on a stored document has failed in its write step
C13_Witness ==
  /\ FailedWrite /\ S.op = "save"
  /\ S.before.kind = "json"
  /\ ~S.res.success
  /\ Len(S.pending[Coll(S.kind)].v) = Len(Items(S.before, S.kind)) + 1
  /\ file = S.before

\* the array fields of a feature payload
FeatureArrayFields ==
  {"inputs", "outputs", "coreLogicSteps", "errorHandling",
   "nonFunctionalRequirements", "documentationNotes"}

\* a Feature.create / Term.create call of the sequential slot has ended
CreateDone(kind) == S.pc = "done" /\ S.op = "create" /\ S.kind = kind

\* C14 (all-or-nothing construction): Feature.create / Term.create returns a
\* Result for every payload - success with data that has no validation error,
\* or a failure carrying the errors - and a feature payload with a valid name
\* and an array field that is missing or not an array gets a failure Result.
C14_AllOrNothing ==
  (S.pc = "done" /\ S.op = "create")
  => /\ S.res.kind \in {"ok", "fail"}
     /\ S.res.kind = "ok"
        => /\ S.res.data = S.arg.data
           /\ IF S.kind = "feature"
                THEN ValidateFeatureData(S.arg.data) = <<>>
                ELSE ValidateTermData(S.arg.data) = <<>>
     /\ S.res.kind = "fail" => S.res.error # <<>>
     /\ (/\ S.kind = "feature"
         /\ FeatureNameCreate(Get(Get(S.arg.data, "feature"), "name")).success
         /\ \E f \in FeatureArrayFields : ~IsArray(Get(S.arg.data, f)))
        => S.res.kind = "fail"

\* C15 (identity validity): FeatureName.create(s) succeeds exactly for the
\* strings s that match ^[a-zA-Z][a-zA-Z0-9_]*$; every other string, one with
\* leading or trailing whitespace included, is rejected.
C15_IdentityValidity ==
  (S.pc = "done" /\ S.op = "nameCreate" /\ S.kind = "feature")
  => (S.res.success <=> FeatureNamePattern(S.arg.raw))

\* the stepNumber values of a coreLogicSteps array
StepNumbersOf(steps) ==
  LET F[k \in 0..Len(steps.v)] ==
        IF k = 0 THEN <<>> ELSE Append(F[k - 1], Get(steps.v[k], "stepNumber"))
  IN F[Len(steps.v)]

\* the error tags of a failed create
ErrorTags(res) == {res.error[k].e : k \in 1..Len(res.error)}

GetDetailsDone == S.pc = "done" /\ S.op = "getDetails"
NamesOf(kind) == IF kind = "feature" THEN S.arg.featureNames ELSE S.arg.termNames
NamesGiven(kind) == IsArray(NamesOf(kind)) /\ NamesOf(kind).v # <<>>
NamesConvert(kind) ==
  \A k \in 1..Len(NamesOf(kind).v) : NameCreate(kind, NamesOf(kind).v[k]).success
\* the repository calls execute made on the collection of kind
LookupsOf(kind) == SelectSeq(S.calls, LAMBDA call : call.kind = kind)
\* what the response holds for kind
Contribution(kind) ==
  IF kind = "feature"
    THEN [found |-> S.res.value.features, notFound |-> S.res.value.notFound.featureNames]
    ELSE [found |-> S.res.value.terms, notFound |-> S.res.value.notFound.termNames]
\* findByNames on the converted list, on the document execute read
LookupOf(kind) ==
  FindByNames(S.before, kind, ValidNamesOf(NameResults(kind, NamesOf(kind).v)))

\* C17: GetDetailsUseCase.execute.  For each of the two lists: an absent or
\* empty list makes no repository call on its collection and contributes an
\* empty found / not-found pair; a list with a name that fails conversion makes
\* the whole call fail without a findByNames call for that list; a list whose
\* names all convert, in a call that succeeds, contributes exactly the found
\* records and the not-found names findByNames returns for the converted list,
\* and a failure of that findByNames fails the call.
C17_GetDetails ==
  GetDetailsDone =>
    \A kind \in Kinds :
      /\ ~NamesGiven(kind) =>
           /\ LookupsOf(kind) = <<>>
           /\ S.res.success =>
                Contribution(kind) = [found |-> <<>>, notFound |-> <<>>]
      /\ (NamesGiven(kind) /\ ~NamesConvert(kind)) =>
           /\ ~S.res.success
           /\ LookupsOf(kind) = <<>>
      /\ (NamesGiven(kind) /\ NamesConvert(kind)) =>
           /\ ~LookupOf(kind).success => ~S.res.success
           /\ S.res.success =>
                /\ LookupsOf(kind) =
                     <<RepositoryCall("findByNames", kind,
                                      ValidNamesOf(NameResults(kind, NamesOf(kind).v)))>>
                /\ LookupOf(kind).success
                /\ Contribution(kind) =
                     [found |-> DataOf(LookupOf(kind).value.found),
                      notFound |-> LookupOf(kind).value.notFound]

\* a call with two feature names, one stored and one not, and no term list
C17_Witness ==
  /\ GetDetailsDone
  /\ S.res.success
  /\ ~IsArray(S.arg.termNames)
  /\ Len(S.res.value.features) = 1
  /\ Len(S.res.value.notFound.featureNames) = 1

\* a finished AddOrUpdateFeatureUseCase / AddOrUpdateTermUseCase execute
AddOrUpdateDone == S.pc = "done" /\ S.op = "addOrUpdate"
HandedToSave ==
  \E k \in 1..Len(S.calls) : S.calls[k].op = "save"

\* save(entity) alone, on the document execute read, gets to its write
SaveWouldWrite ==
  /\ Loadable(S.before)
  /\ ~FindThrows(S.kind, Items(S.before, S.kind), Create(S.kind, S.arg.data).name)

\* C18: the existence check of the add-or-update use cases never branches the
\* operation: every payload that passes entity creation is handed to save, and
\* the isUpdate returned is the one save computes from the document it loaded.
\* Stated for the documents on which save alone gets to its write, where
\* skipping save changes the outcome of the call.
C18_ExistenceNeverBranches ==
  (AddOrUpdateDone /\ Create(S.kind, S.arg.data).kind = "ok" /\ SaveWouldWrite) =>
    /\ HandedToSave
    /\ S.res.success =>
         S.res.value.isUpdate =
           (FindIndex(S.kind, Items(S.before, S.kind),
                      Create(S.kind, S.arg.data).name) > 0)

\* the operations of the repositories and the execute methods of the use cases
ResultOperations ==
  {"findByName", "findAll", "getList", "save", "delete", "exists", "count",
   "findByNames", "findTermsBy", "addOrUpdate", "deleteExecute", "getDetails"}
\* res is a Result: { success: true, value } or { success: false, error }
IsResult(res) ==
  \/ DOMAIN res = {"success", "value"} /\ res.success = TRUE
  \/ DOMAIN res = {"success", "error"} /\ res.success = FALSE

\* C19: no raw exceptions.  Every repository operation and every use-case
\* execute that has returned, on every input and storage condition (file
\* missing, not JSON, write failing, stored records without their nested
\* sections, payloads without their feature / term section), has returned a
\* success or failure Result: no outcome is a thrown exception.
C19_NoRawExceptions ==
  \A c \in Slots :
    (slots[c].pc = "done" /\ slots[c].op \in ResultOperations) => IsResult(slots[c].res)

\* a TypeError caught and returned as a failure: getList on a stored term
\* without its details section
C19_Witness ==
  /\ S.pc = "done"
  /\ S.op = "getList"
  /\ S.kind = "term"
  /\ IsResult(S.res)
  /\ ~S.res.success
  /\ Loadable(S.before)
  /\ S.calls = <<>>
  /\ S.res.error \in {"TypeError"}

\* the exchanges so far follow the scenario: POST a valid feature F, POST F
\* with a changed purpose, GET the list, DELETE F, DELETE F
ScenarioFeature(h) == h[1].arg.data
FollowsScenario(h) ==
  /\ Len(h) \in 1..5
  /\ h[1].op = PostRoute
  /\ Create("feature", ScenarioFeature(h)).kind = "ok"
  /\ Len(h) >= 2 =>
       /\ h[2].op = PostRoute
       /\ Create("feature", h[2].arg.data).kind = "ok"
       /\ StoredName("feature", h[2].arg.data) = StoredName("feature", ScenarioFeature(h))
       /\ Get(Get(h[2].arg.data, "feature"), "purpose")
            # Get(Get(ScenarioFeature(h), "feature"), "purpose")
  /\ Len(h) >= 3 => h[3].op = ListRoute
  /\ \A k \in 4..Len(h) :
       /\ h[k].op = DeleteRoute
       /\ Str(h[k].arg.name) = StoredName("feature", ScenarioFeature(h))

\* C20: the REST end-to-end scenario on an initially empty document.  POST of
\* a valid feature F answers 201 with isUpdate false; POST of F with a changed
\* purpose answers 200 with isUpdate true; GET /api/resources/features answers
\* a list of exactly one entry, named F; DELETE /api/features/F answers 200; a
\* second DELETE /api/features/F answers 404.
C20_RestScenario ==
  LET h == RestHistory(1)
      last == h[Len(h)]
  IN (S.pc = "done" /\ FollowsScenario(h)) =>
       /\ Len(h) = 1 => last.status = 201 /\ last.data.v.isUpdate = FALSE
       /\ Len(h) = 2 => last.status = 200 /\ last.data.v.isUpdate = TRUE
       /\ Len(h) = 3 =>
            /\ last.status = 200
            /\ Len(last.data.v) = 1
            /\ last.data.v[1].name = StoredName("feature", ScenarioFeature(h))
       /\ Len(h) = 4 => last.status = 200
       /\ Len(h) = 5 => last.status = 404

(***************************************************************************)
(* C21  POST /api/features and POST /api/terms: a request whose payload    *)
(* fails input validation, be it the name or, with a valid name, the       *)
(* structural checks of the entity (blank purpose, duplicate stepNumber),   *)
(* is answered with 400; 500 is answered only when the document cannot be  *)
(* loaded or written.                                                      *)
(***************************************************************************)
PostDone == S.pc = "done" /\ S.op = PostRoute

FailsValidation(kind, data) ==
  \/ ~ValidateInput(kind, data).success
  \/ Create(kind, data).kind # "ok"

C21_PostStatus ==
  PostDone =>
    /\ FailsValidation(S.kind, S.arg.data) => RestStatus(S) = 400
    /\ RestStatus(S) = 500 => ~Loadable(S.before) \/ ~writable

(***************************************************************************)
(* C22  Health check: the status is 'healthy' exactly when the feature     *)
(* count and the term count both succeed; each details flag is the success *)
(* of its own repository's count, and the term count is made also when the *)
(* feature count fails; when a count throws the status is 'unhealthy' with *)
(* both flags false; the endpoint answers 200 when healthy, 503 otherwise. *)
(***************************************************************************)
HealthDone == S.pc = "done" /\ S.op = HealthRoute
FeatureCounted == RepositoryCount(S.arg.featureRepository, S.before, "feature")
TermCounted == RepositoryCount(S.arg.termRepository, S.before, "term")
CountCalls == [k \in 1..Len(S.calls) |-> S.calls[k].kind]

C22_HealthCheck ==
  HealthDone =>
    /\ S.res.code = (IF S.res.status = "healthy" THEN 200 ELSE 503)
    /\ IF FeatureCounted = Thrown
         THEN /\ S.res = HealthCaught
              /\ Len(S.calls) = 1
         ELSE /\ CountCalls[1] = "feature" /\ CountCalls[2] = "term"
              /\ Len(S.calls) = 2
              /\ IF TermCounted = Thrown
                   THEN S.res = HealthCaught
                   ELSE /\ S.res.status = "healthy"
                             <=> FeatureCounted.success /\ TermCounted.success
                        /\ S.res.details.featureRepository = FeatureCounted.success
                        /\ S.res.details.termRepository = TermCounted.success

\* the feature count failed, the term count was still made and succeeded
C22_Witness ==
  /\ HealthDone
  /\ FeatureCounted # Thrown /\ ~FeatureCounted.success
  /\ TermCounted # Thrown /\ TermCounted.success
  /\ Len(S.calls) = 2
  /\ S.res.details = [featureRepository |-> FALSE, termRepository |-> TRUE]
  /\ S.res.status = "unhealthy" /\ S.res.code = 503

(***************************************************************************)
(* C23  Server start-up (MCP and REST): run initialises the data first and *)
(* then starts the transport (connect / listen), exactly once; a count     *)
(* that fails during initialisation is logged and does not keep the        *)
(* transport from being started; when starting the transport fails the     *)
(* process exits with code 1.                                              *)
(***************************************************************************)
RunStarted == S.op = "run"
RunDone == RunStarted /\ S.pc = "done"
CallsOf(ops) == {k \in 1..Len(S.calls) : S.calls[k].op \in ops}
TransportCalls == CallsOf({Transport(S.kind)})
CountThrown ==
  \/ FeatureCounted = Thrown
  \/ FeatureCounted.success /\ TermCounted = Thrown
CountFailed ==
  \/ FeatureCounted # Thrown /\ ~FeatureCounted.success
  \/ FeatureCounted # Thrown /\ TermCounted # Thrown /\ ~TermCounted.success

C23_StartUp ==
  RunStarted =>
    /\ Cardinality(TransportCalls) <= 1
    /\ \A k \in CallsOf({"count"}) : \A t \in TransportCalls : k < t
    /\ TransportCalls # {} => S.calls[1].op = "count"
    /\ RunDone /\ ~CountThrown => Cardinality(TransportCalls) = 1
    /\ RunDone /\ TransportCalls # {} =>
         IF S.arg.transport
           THEN S.res = Running /\ CallsOf({"exit"}) = {}
           ELSE S.res = Exit(1) /\ S.calls[Len(S.calls)] = RepositoryCall("exit", "none", 1)

\* the feature count failed and was logged, and the transport was started
C23_Witness ==
  /\ RunDone
  /\ CountFailed
  /\ CallsOf({"log"}) # {}
  /\ Cardinality(TransportCalls) = 1
  /\ S.res = Running

(***************************************************************************)
(* C24  Dispatch of the MCP adapter: a tool call whose name is none of the *)
(* five registered tools ends in a protocol error (McpError) and invokes   *)
(* no use case; a resource read whose URI is none of the three registered  *)
(* URIs ends in a protocol error and accesses no repository; a registered  *)
(* name or URI is dispatched to its own use case or repository read only.  *)
(***************************************************************************)
IsMcpError(res) == DOMAIN res = {"mcpError"}

\* the entity and use case behind each registered tool
UseCaseOfTool(name) ==
  CASE name = "add_or_update_feature" -> <<"feature", "AddOrUpdate">>
    [] name = "delete_feature" -> <<"feature", "Delete">>
    [] name = "add_or_update_term" -> <<"term", "AddOrUpdate">>
    [] name = "delete_term" -> <<"term", "Delete">>
    [] name = "get_details" -> <<"both", "GetDetails">>

\* the repository reads behind each registered URI
ReadsOfUri(uri) ==
  CASE uri = "design://features/list" -> {<<"getList", "feature">>}
    [] uri = "design://terms/list" -> {<<"getList", "term">>}
    [] uri = "design://statistics" -> {<<"count", "feature">>, <<"count", "term">>}

C24_Dispatch ==
  /\ S.op = "callTool" =>
       IF S.arg.name \in ToolNames
         THEN /\ S.calls # <<>>
              /\ \A k \in 1..Len(S.calls) :
                   <<S.calls[k].kind, S.calls[k].arg>> = UseCaseOfTool(S.arg.name)
         ELSE /\ IsMcpError(S.res)
              /\ S.calls = <<>>
              /\ S.pc = "done" /\ file = S.before
  /\ S.op = "readResource" =>
       IF S.arg.uri \in ResourceUris
         THEN /\ S.calls # <<>>
              /\ \A k \in 1..Len(S.calls) :
                   <<S.calls[k].op, S.calls[k].kind>> \in ReadsOfUri(S.arg.uri)
         ELSE /\ IsMcpError(S.res)
              /\ S.calls = <<>>

\* an unknown tool name called with arguments a registered tool would accept
C24_Witness ==
  /\ S.op = "callTool"
  /\ S.arg.name \notin ToolNames
  /\ S.arg.arguments = Obj([featureNames |-> Arr(<<Str(<<"a">>)>>),
                            termNames |-> Arr(<<Str(<<"t">>)>>)])
  /\ S.res = McpError("MethodNotFound")
  /\ S.calls = <<>>

(***************************************************************************)
(* C25  Cross-collection isolation on the shared file: in every execution, *)
(* interleavings of a feature-repository mutation with a term-repository   *)
(* mutation included, a save or delete that completed successfully in one  *)
(* repository is never undone by a call of the other repository.           *)
(***************************************************************************)
\* slot c holds a delete that has returned found=true
Deleted(c) ==
  /\ slots[c].pc = "done" /\ slots[c].op = "delete"
  /\ slots[c].res.success /\ slots[c].res.value.found

\* a is the only call of its repository; the only other call, b, is one of the
\* other repository
CrossCollectionCase(a, b) ==
  /\ a # b
  /\ slots[b].op \in Mutating
  /\ slots[b].kind \in Kinds \ {slots[a].kind}
  /\ \A c \in Slots \ {a, b} : slots[c].pc = "idle"

C25_CrossCollectionIsolation ==
  \A a, b \in Slots :
    CrossCollectionCase(a, b) =>
      /\ Saved(a) => Stored(file, a)
      /\ Deleted(a) => ~HasName(file, slots[a].kind, slots[a].arg.name)

(***************************************************************************)
(* C26  Name uniqueness survives races: from a document with unique names, *)
(* under every interleaving of the read and write steps of concurrent save *)
(* and delete calls, every persisted document has pairwise distinct names  *)
(* within features and within terms.                                       *)
(***************************************************************************)
C26_UniqueUnderRaces ==
  \A kind \in Kinds : UniqueIn(kind, file[Coll(kind)])

(***************************************************************************)
(* C27  Single creation report: for a name that is absent initially and    *)
(* with no delete issued, among the successful saves of that name,         *)
(* sequential or interleaved, exactly one returns isUpdate=false and all   *)
(* others return isUpdate=true.                                            *)
(***************************************************************************)
\* the successful saves of the name that slot a saved
SavesLike(a) ==
  {c \in Slots : /\ Saved(c)
                 /\ slots[c].kind = slots[a].kind
                 /\ slots[c].arg.name = slots[a].arg.name}

\* every call issued so far is a save of that name and has returned
OnlySavesLike(a) ==
  \A c \in Slots :
    \/ slots[c].pc = "idle"
    \/ /\ slots[c].pc = "done" /\ slots[c].op = "save"
       /\ slots[c].kind = slots[a].kind
       /\ slots[c].arg.name = slots[a].arg.name

\* the name was absent initially: as nothing removes it, this is so exactly
\* when some save read a document without it
AbsentInitially(a) ==
  \E c \in SavesLike(a) : ~HasName(slots[c].before, slots[c].kind, slots[c].arg.name)

C27_SingleCreationReport ==
  \A a \in Slots :
    Saved(a) /\ OnlySavesLike(a) /\ AbsentInitially(a) =>
      Cardinality({c \in SavesLike(a) : ~slots[c].res.value.isUpdate}) = 1

(***************************************************************************)
(* C28  A malformed stored record blocks its own repair but not its        *)
(* removal: when the stored record named N fails entity validation (and    *)
(* the name lookup itself does not throw on another record), exists(N)     *)
(* returns a failure, execute of AddOrUpdate with a valid payload named N  *)
(* returns a failure and leaves the document unchanged, count() succeeds,  *)
(* and delete(N), when the file can be written, removes the record and     *)
(* returns found=true.                                                     *)
(***************************************************************************)
\* the first record named name in the collection of f fails Feature.create /
\* Term.create
MalformedNamed(f, kind, name) ==
  /\ Loadable(f)
  /\ ~FindThrows(kind, Items(f, kind), name)
  /\ FindIndex(kind, Items(f, kind), name) > 0
  /\ Create(kind, Items(f, kind)[FindIndex(kind, Items(f, kind), name)]).kind # "ok"

\* some name of the collection is the name of a malformed record
SomeMalformedNamed(f, kind) ==
  \E raw \in UseCaseNames(kind) : MalformedNamed(f, kind, raw)

\* the name under which execute looks the payload up
PayloadName(kind, data) == NameCreate(kind, StoredName(kind, data)).value

RepairBlocked ==
  /\ S.op = "addOrUpdate"
  /\ Create(S.kind, S.arg.data).kind = "ok"
  /\ MalformedNamed(S.before, S.kind, PayloadName(S.kind, S.arg.data))

DeleteFound ==
  /\ S.op = "delete" /\ S.pc = "done"
  /\ S.res.success /\ S.res.value.found

\* the positions of the entries named name
NamedIn(kind, items, name) ==
  {k \in 1..Len(items) : StoredName(kind, items[k]) = Str(name)}

C29_DeleteRemovesFirst ==
  DeleteFound =>
    LET old == Items(S.before, S.kind)
        new == Items(file, S.kind)
    IN /\ Len(new) = Len(old) - 1
       /\ \E k \in 1..Len(old) :
            /\ FirstNamed(S.kind, old, k, S.arg.name)
            /\ \A i \in 1..(k - 1) : new[i] = old[i]
            /\ \A i \in k..Len(new) : new[i] = old[i + 1]
       /\ Cardinality(NamedIn(S.kind, new, S.arg.name))
            = Cardinality(NamedIn(S.kind, old, S.arg.name)) - 1
       /\ OtherItems(file, S.kind) = OtherItems(S.before, S.kind)

\* the document held two entries of that name and one of them remains
C29_Witness ==
  /\ DeleteFound
  /\ Cardinality(NamedIn(S.kind, Items(S.before, S.kind), S.arg.name)) >= 2
  /\ Items(S.before, S.kind)[1] # Items(S.before, S.kind)[2]
  /\ Items(file, S.kind) = <<Items(S.before, S.kind)[2]>>

(***************************************************************************)
(* C30  Legacy DataManager atomicity: after every addOrUpdateFeature /     *)
(* addOrUpdateTerm / deleteFeature / deleteTerm call, resolved or          *)
(* rejected, the in-memory document equals the persisted file; when the    *)
(* write fails the call rejects and the original state is retained, so     *)
(* later hasFeature / getStatistics calls do not observe the attempted     *)
(* mutation.                                                               *)
(***************************************************************************)
C30_ManagerAtomicity ==
  ManagerReady(1) =>
    /\ WrittenFile(S.pending) = WrittenFile(ManagerParsed(file))
    /\ S.op = "hasFeature" => S.res = HasFeature(ManagerParsed(file), S.kind, S.arg.name)
    /\ S.op = "getStatistics" => S.res = GetStatistics(ManagerParsed(file))

====
